---- MODULE Spec2Model ----
(***************************************************************************)
(* A model of gql-alchemy: the stack-driven document parser                *)
(* (gql_parser.py, with the Reader of graphql_parser.py), the schema       *)
(* construction (gql_schema.py), the validator (validator.py) and the      *)
(* executor (executor.py).                                                 *)
(*                                                                         *)
(* Encoding conventions                                                    *)
(*   - Python None is the string None == "<None>", which is never equal to *)
(*     a one-character string nor to a name the grammar can produce.       *)
(*   - an Optional node is a sequence of length 0 or 1.                    *)
(*   - a Python list is a sequence; a Python dict is a sequence of         *)
(*     [k |-> key, v |-> value] entries in insertion order with unique     *)
(*     keys (DictSet below is dict.__setitem__).                           *)
(*   - the source text is a TLA+ string; a character is a string of        *)
(*     length one.  Reader.index is the 0-based Python offset.             *)
(***************************************************************************)
EXTENDS Integers, Sequences, FiniteSets, TLC

VARIABLES
    text,       \* Reader.text_input
    reader,     \* [index, lineno]: Reader.index, Reader.lineno
    stack,      \* parse(): the list of ElementParser frames, bottom first
    out,        \* what the frames handed to the caller of parse()
    pstate,     \* "idle" | "parsing" | "done" | "GqlParsingError" | "RuntimeError"
    perr,       \* message of the exception that ended parse(), "" if none
    initial,    \* the frame parse() is started with (initial_parser)
    parts,      \* the pieces the text was put together from
    nsteps,     \* how many times the loop of parse() has called next()
    schema,     \* the Schema under construction or in use: [types, query, mutation]
    sstate,     \* "new" | "resolved" | "constructed" | "GqlSchemaError" | "RuntimeError"
    serr,       \* message of the exception that ended Schema.__init__, "" if none
    resolved,   \* the places of the Refs whose ref_type has been set
    call,       \* [variables, operation_name, resolver]: what the engine is called with
    vresult,    \* Optional outcome of validate()
    qresult,    \* Optional outcome of Executor.query()
    runner,     \* Optional _OperationRunner that Executor.query() made and ran
    first,      \* Optional outcome of the parse() that was made before this one
    again,      \* Optional text that parse() is called with once it has ended
    given,      \* Optional [type, value, vars_values, vars_defs] a type is asked about
    answer,     \* Optional outcome of is_assignable() or validate_input()
    waiting,    \* the locals of the calls of query() that are not running now
    alone       \* Optional [text, call, qresult] of the call that ran by itself

pvars == <<text, reader, stack, out, pstate, perr, initial, parts, nsteps>>

svars == <<schema, sstate, serr, resolved>>

qvars == <<call, vresult, qresult, runner>>

rvars == <<first, again, given, answer, waiting, alone>>

vars == <<pvars, svars, qvars, rvars>>

None == "<None>"

\* the value v under the name that F gives it: a local variable of the code
Let(v, F(_)) == F(v)

----------------------------------------------------------------------------
(* Character classes of the regular expressions of the parser.             *)

Digits == {"0", "1", "2", "3", "4", "5", "6", "7", "8", "9"}

NonZeroDigits == Digits \ {"0"}

Letters ==
    {"a", "b", "c", "d", "e", "f", "g", "h", "i", "j", "k", "l", "m",
     "n", "o", "p", "q", "r", "s", "t", "u", "v", "w", "x", "y", "z",
     "A", "B", "C", "D", "E", "F", "G", "H", "I", "J", "K", "L", "M",
     "N", "O", "P", "Q", "R", "S", "T", "U", "V", "W", "X", "Y", "Z"}

\* [_A-Za-z]
NameStart == Letters \cup {"_"}

\* [_0-9A-Za-z]
NameChar == NameStart \cup Digits

\* StringValueParser.HEX_DIGITS
HEX_DIGITS ==
    Digits \cup {"a", "b", "c", "d", "e", "f", "A", "B", "C", "D", "E", "F"}

----------------------------------------------------------------------------
(* Reader (graphql_parser.py).  Every operator takes the reader record     *)
(* rd = [index, lineno] and returns the reader after the call.             *)

\* text_input[i] for a 0-based offset i < len(text_input)
CharAt(i) == SubSeq(text, i + 1, i + 1)

\* text_input[i:j]
Slice(i, j) == SubSeq(text, i + 1, j)

\* str.find(ch, start): the first offset >= start holding ch, or -1
RECURSIVE find(_, _)
find(ch, start) ==
    IF start >= Len(text) THEN -1
    ELSE IF CharAt(start) = ch THEN start
    ELSE find(ch, start + 1)

\* str.rfind(ch, 0, end): the last offset < end holding ch, or -1
rfind(ch, end) ==
    LET held == {k \in 0..(end - 1) : CharAt(k) = ch} IN
    IF held = {} THEN -1 ELSE CHOOSE k \in held : \A j \in held : j <= k

\* Reader.line_pos: the column of the reader in its line
line_pos(rd) ==
    LET start == rfind("\n", rd.index) IN
    IF start < 0 THEN rd.index ELSE rd.index - start - 1

\* Reader.current_line: the line the reader stands in
current_line(rd) ==
    LET start == rfind("\n", rd.index)
        end   == find("\n", rd.index)
    IN  Slice(IF start < 0 THEN 0 ELSE start + 1, IF end < 0 THEN Len(text) ELSE end)

\* Reader.lookup_ch: skip newlines (counting them), blanks, commas and
\* comments, and return the next significant character without reading it
RECURSIVE lookup_ch(_)
lookup_ch(rd) ==
    IF Len(text) = rd.index THEN [rd |-> rd, ch |-> None]
    ELSE LET ch == CharAt(rd.index) IN
         IF ch = "\n"
         THEN lookup_ch([index |-> rd.index + 1, lineno |-> rd.lineno + 1])
         ELSE IF ch \in {" ", "\r", "\t", ","}
         THEN lookup_ch([rd EXCEPT !.index = @ + 1])
         ELSE IF ch = "#"
         THEN LET k == find("\n", rd.index) IN
              lookup_ch([rd EXCEPT !.index = IF k < 0 THEN Len(text) ELSE k])
         ELSE [rd |-> rd, ch |-> ch]

\* Reader.read_ch
read_ch(rd) ==
    Let(lookup_ch(rd), LAMBDA l :
        IF l.ch # None
        THEN [rd |-> [l.rd EXCEPT !.index = @ + 1], ch |-> l.ch]
        ELSE l)

\* Reader.str_read_ch: the raw next character, nothing skipped
str_read_ch(rd) ==
    IF Len(text) = rd.index THEN [rd |-> rd, ch |-> None]
    ELSE [rd |-> [rd EXCEPT !.index = @ + 1], ch |-> CharAt(rd.index)]

----------------------------------------------------------------------------
(* The regular expressions, each as the length of re.match at offset i     *)
(* (-1 when there is no match).                                            *)

\* the number of consecutive characters of class cls from offset i on
RECURSIVE Run(_, _)
Run(cls, i) ==
    IF i < Len(text) /\ CharAt(i) \in cls THEN 1 + Run(cls, i + 1) ELSE 0

\* NAME_RE = [_A-Za-z][_0-9A-Za-z]*
MatchName(i) ==
    IF i < Len(text) /\ CharAt(i) \in NameStart
    THEN 1 + Run(NameChar, i + 1)
    ELSE -1

\* one pattern character of a literal against one text character: the
\* literal is spliced into the pattern unescaped, so "." matches any
\* character but the newline
PatternCharMatches(p, c) == IF p = "." THEN c # "\n" ELSE p = c

RECURSIVE PatternMatches(_, _)
PatternMatches(literal, i) ==
    IF Len(literal) = 0 THEN TRUE
    ELSE /\ i < Len(text)
         /\ PatternCharMatches(Head(literal), CharAt(i))
         /\ PatternMatches(Tail(literal), i + 1)

\* (?:literal)(?=[^_0-9A-Za-z]|$)
MatchLiteral(literal, i) ==
    LET j == i + Len(literal) IN
    IF PatternMatches(literal, i) /\ (j = Len(text) \/ CharAt(j) \notin NameChar)
    THEN Len(literal)
    ELSE -1

\* INT_PART = -?(?:[1-9][0-9]*|0)
MatchInt(i) ==
    LET s == IF i < Len(text) /\ CharAt(i) = "-" THEN 1 ELSE 0
        j == i + s
    IN  IF j < Len(text) /\ CharAt(j) \in NonZeroDigits
        THEN s + 1 + Run(Digits, j + 1)
        ELSE IF j < Len(text) /\ CharAt(j) = "0" THEN s + 1
        ELSE -1

\* FR_PART = (?:\.[0-9]+)
MatchFr(i) ==
    IF i < Len(text) /\ CharAt(i) = "." /\ Run(Digits, i + 1) > 0
    THEN 1 + Run(Digits, i + 1)
    ELSE -1

\* EXP_PART = (?:[eE][+-]?[0-9]+)
MatchExp(i) ==
    IF i < Len(text) /\ CharAt(i) \in {"e", "E"}
    THEN LET s == IF i + 1 < Len(text) /\ CharAt(i + 1) \in {"+", "-"} THEN 1 ELSE 0
             d == Run(Digits, i + 1 + s)
         IN  IF d > 0 THEN 1 + s + d ELSE -1
    ELSE -1

\* FLOAT_RE = INT_PART(?:FR_PART EXP_PART?|EXP_PART)
MatchFloat(i) ==
    LET n == MatchInt(i) IN
    IF n < 0 THEN -1
    ELSE LET fr == MatchFr(i + n) IN
         IF fr > 0
         THEN LET ex == MatchExp(i + n + fr) IN
              n + fr + (IF ex > 0 THEN ex ELSE 0)
         ELSE LET ex == MatchExp(i + n) IN
              IF ex > 0 THEN n + ex ELSE -1

\* SelectionsParser.DETECT_FRAGMENT_SPREAD_RE = \.\.\.[ \t]+(NAME): the
\* captured name, or None when the pattern does not match at offset i
DetectFragmentSpread(i) ==
    IF i + 3 <= Len(text) /\ Slice(i, i + 3) = "..."
    THEN LET b == Run({" ", "\t"}, i + 3)
             n == MatchName(i + 3 + b)
         IN  IF b > 0 /\ n > 0 THEN Slice(i + 3 + b, i + 3 + b + n) ELSE None
    ELSE None

\* the compiled patterns: NAME_RE, ValueParser.INT_RE and FLOAT_RE, and the
\* pattern that assert_literal and try_literal compile for a literal
NAME_RE == [re |-> "NAME_RE", literal |-> ""]

INT_RE == [re |-> "INT_RE", literal |-> ""]

FLOAT_RE == [re |-> "FLOAT_RE", literal |-> ""]

LiteralRe(literal) == [re |-> "literal", literal |-> literal]

\* Reader.match_re: the length of regexp.match(text_input, index)
match_re(regexp, i) ==
    CASE regexp.re = "NAME_RE"  -> MatchName(i)
      [] regexp.re = "INT_RE"   -> MatchInt(i)
      [] regexp.re = "FLOAT_RE" -> MatchFloat(i)
      [] regexp.re = "literal"  -> MatchLiteral(regexp.literal, i)

\* Reader.read_re: skip what lookup_ch skips, then read the match; s = None
\* when the pattern does not match
read_re(regexp, rd) ==
    Let(lookup_ch(rd), LAMBDA l :
    Let(match_re(regexp, l.rd.index), LAMBDA n :
        IF n >= 0
        THEN [rd |-> [l.rd EXCEPT !.index = @ + n],
              s  |-> Slice(l.rd.index, l.rd.index + n)]
        ELSE [rd |-> l.rd, s |-> None]))

----------------------------------------------------------------------------
(* ElementParser's static helpers.  err = "" means that nothing was raised;*)
(* otherwise err is the message of the GqlParsingError.                    *)

\* ", ".join of the quoted symbols
RECURSIVE JoinQuoted(_)
JoinQuoted(symbols) ==
    IF Len(symbols) = 0 THEN ""
    ELSE IF Len(symbols) = 1 THEN "\"" \o symbols[1] \o "\""
    ELSE "\"" \o symbols[1] \o "\", " \o JoinQuoted(Tail(symbols))

\* LiteralExpected.__init__
LiteralExpected(symbols) ==
    IF Len(symbols) = 1
    THEN "Expected '" \o symbols[1] \o "'"
    ELSE "One of " \o JoinQuoted(SubSeq(symbols, 1, Len(symbols) - 1))
         \o " and \"" \o symbols[Len(symbols)] \o "\" expected"

assert_ch(rd, ch) ==
    Let(read_ch(rd), LAMBDA r :
        [rd |-> r.rd, err |-> IF r.ch # ch THEN LiteralExpected(<<ch>>) ELSE ""])

assert_literal(rd, literal) ==
    Let(read_re(LiteralRe(literal), rd), LAMBDA r :
        [rd |-> r.rd, err |-> IF r.s = None THEN LiteralExpected(<<literal>>) ELSE ""])

try_literal(rd, literal) ==
    Let(read_re(LiteralRe(literal), rd), LAMBDA r :
        [rd |-> r.rd, ok |-> r.s # None])

read_if(rd, ch) ==
    Let(lookup_ch(rd), LAMBDA l :
        IF l.ch = ch THEN [rd |-> read_ch(l.rd).rd, ok |-> TRUE]
        ELSE [rd |-> l.rd, ok |-> FALSE])

read_name(rd) ==
    Let(read_re(NAME_RE, rd), LAMBDA r :
        [rd |-> r.rd, name |-> r.s,
         err |-> IF r.s = None
                 THEN "Name expected (forgot to finish selections by '}'?)"
                 ELSE ""])

----------------------------------------------------------------------------
(* Python containers.                                                      *)

DictHas(d, key) == \E i \in 1..Len(d) : d[i].k = key

\* d[key] = value: a held key keeps its place, a new key goes last
DictSet(d, key, value) ==
    IF DictHas(d, key)
    THEN [i \in 1..Len(d) |-> IF d[i].k = key THEN [k |-> key, v |-> value] ELSE d[i]]
    ELSE Append(d, [k |-> key, v |-> value])

\* the members of a list
Range(s) == {s[i] : i \in 1..Len(s)}

\* list without the value x (del of a key of the `expected` tables, which
\* are kept as the list of their keys in insertion order)
Without(s, x) == SelectSeq(s, LAMBDA e : e # x)

----------------------------------------------------------------------------
(* Query model nodes (query_model.py).                                     *)

Document(operations, fragments) ==
    [node |-> "Document", operations |-> operations, fragments |-> fragments]

Query(name, variables, directives, selections) ==
    [node |-> "Query", name |-> name, variables |-> variables,
     directives |-> directives, selections |-> selections]

Mutation(name, variables, directives, selections) ==
    [node |-> "Mutation", name |-> name, variables |-> variables,
     directives |-> directives, selections |-> selections]

VariableDefinition(name, type, default) ==
    [node |-> "VariableDefinition", name |-> name, type |-> type, default |-> default]

NamedType(name, null) == [node |-> "NamedType", name |-> name, null |-> null]

ListType(el_type, null) == [node |-> "ListType", el_type |-> el_type, null |-> null]

Directive(name, arguments) ==
    [node |-> "Directive", name |-> name, arguments |-> arguments]

Argument(name, value) == [node |-> "Argument", name |-> name, value |-> value]

FieldSelection(alias, name, arguments, directives, selections) ==
    [node |-> "FieldSelection", alias |-> alias, name |-> name,
     arguments |-> arguments, directives |-> directives, selections |-> selections]

FragmentSpread(name, directives) ==
    [node |-> "FragmentSpread", name |-> name, directives |-> directives]

InlineFragment(on_type, directives, selections) ==
    [node |-> "InlineFragment", on_type |-> on_type, directives |-> directives,
     selections |-> selections]

Fragment(name, on_type, directives, selections) ==
    [node |-> "Fragment", name |-> name, on_type |-> on_type,
     directives |-> directives, selections |-> selections]

Variable(name) == [node |-> "Variable", name |-> name]

NullValue == [node |-> "NullValue"]

EnumValue(value) == [node |-> "EnumValue", value |-> value]

IntValue(value) == [node |-> "IntValue", value |-> value]

\* the float is kept as [int, frac, exp]: see ToFloat
FloatValue(value) == [node |-> "FloatValue", value |-> value]

StrValue(value) == [node |-> "StrValue", value |-> value]

BoolValue(value) == [node |-> "BoolValue", value |-> value]

ConstListValue(values) == [node |-> "ConstListValue", values |-> values]

ListValue(values) == [node |-> "ListValue", values |-> values]

ConstObjectValue(values) == [node |-> "ConstObjectValue", values |-> values]

ObjectValue(values) == [node |-> "ObjectValue", values |-> values]

----------------------------------------------------------------------------
(* Conversions of literals.                                                *)

DigitValue(c) ==
    CASE c = "0" -> 0 [] c = "1" -> 1 [] c = "2" -> 2 [] c = "3" -> 3
      [] c = "4" -> 4 [] c = "5" -> 5 [] c = "6" -> 6 [] c = "7" -> 7
      [] c = "8" -> 8 [] c = "9" -> 9
      [] c \in {"a", "A"} -> 10 [] c \in {"b", "B"} -> 11
      [] c \in {"c", "C"} -> 12 [] c \in {"d", "D"} -> 13
      [] c \in {"e", "E"} -> 14 [] c \in {"f", "F"} -> 15

\* the number written by a string of digits in the given base
RECURSIVE DigitsValue(_, _, _)
DigitsValue(s, base, acc) ==
    IF Len(s) = 0 THEN acc
    ELSE DigitsValue(Tail(s), base, acc * base + DigitValue(Head(s)))

\* int(v) for a match of INT_RE, and for [+-]?[0-9]+
ToInt(v) ==
    IF Len(v) > 0 /\ Head(v) = "-" THEN 0 - DigitsValue(Tail(v), 10, 0)
    ELSE IF Len(v) > 0 /\ Head(v) = "+" THEN DigitsValue(Tail(v), 10, 0)
    ELSE DigitsValue(v, 10, 0)

\* the offset in v of the first character of class cls, Len(v) if none
RECURSIVE IndexIn(_, _, _)
IndexIn(v, cls, i) ==
    IF i >= Len(v) THEN Len(v)
    ELSE IF SubSeq(v, i + 1, i + 1) \in cls THEN i
    ELSE IndexIn(v, cls, i + 1)

\* m * 10^e without the trailing zeros of m
RECURSIVE Normalise(_, _)
Normalise(m, e) ==
    IF m = 0 THEN [m |-> 0, e |-> 0]
    ELSE IF m % 10 = 0 THEN Normalise(m \div 10, e + 1)
    ELSE [m |-> m, e |-> e]

\* float(v) for a match of FLOAT_RE, as the decimal m * 10^e it denotes
ToFloat(v) ==
    LET neg  == Head(v) = "-"
        body == IF neg THEN Tail(v) ELSE v
        ePos == IndexIn(body, {"e", "E"}, 0)
        mant == SubSeq(body, 1, ePos)
        dot  == IndexIn(mant, {"."}, 0)
        ip   == SubSeq(mant, 1, dot)
        fp   == SubSeq(mant, dot + 2, Len(mant))
        ex   == IF ePos < Len(body) THEN ToInt(SubSeq(body, ePos + 2, Len(body))) ELSE 0
        n    == Normalise(DigitsValue(ip \o fp, 10, 0), ex - Len(fp))
    IN  [m |-> IF neg THEN 0 - n.m ELSE n.m, e |-> n.e]

\* the printable ASCII characters of codes 32..95 and 97..126
AsciiLow ==
    " !\"#$%&'()*+,-./0123456789:;<=>?@ABCDEFGHIJKLMNOPQRSTUVWXYZ[\\]^_"

AsciiHigh == "abcdefghijklmnopqrstuvwxyz{|}~"

\* chr(code); a character that a string of this module cannot hold is
\* written <chr code>
Chr(code) ==
    IF code >= 32 /\ code <= 95 THEN SubSeq(AsciiLow, code - 31, code - 31)
    ELSE IF code >= 97 /\ code <= 126 THEN SubSeq(AsciiHigh, code - 96, code - 96)
    ELSE IF code = 10 THEN "\n"
    ELSE IF code = 9 THEN "\t"
    ELSE "<chr " \o ToString(code) \o ">"

----------------------------------------------------------------------------
(* The frames.  A frame holds in `to` what the Python object holds as a    *)
(* reference to a list of an enclosing frame, or as a callback into it:    *)
(* f is the stack position of the owner (0: the caller of parse), slot the *)
(* attribute, mode what the callback does (append, assign, or dictset      *)
(* under key).                                                             *)

ListRef(f, slot) == [f |-> f, slot |-> slot, mode |-> "append", key |-> ""]

Callback(f, slot, mode, key) == [f |-> f, slot |-> slot, mode |-> mode, key |-> key]

\* the caller's list or callback
Caller == ListRef(0, "out")

DocumentParser(set_document) ==
    [kind |-> "DocumentParser", to |-> set_document,
     operations |-> <<>>, fragments |-> <<>>, selections |-> <<>>,
     selection_allowed |-> TRUE, query_allowed |-> TRUE]

OperationParser(operation_type, operations) ==
    [kind |-> "OperationParser", to |-> operations,
     operation_type |-> operation_type, name |-> None,
     variables |-> <<>>, directives |-> <<>>, selections |-> <<>>,
     expected |-> <<"(", "@", "{">>]

VariablesParser(variables) == [kind |-> "VariablesParser", to |-> variables]

VariableDefinitionParser(variables) ==
    [kind |-> "VariableDefinitionParser", to |-> variables,
     name |-> None, type |-> <<>>, default |-> <<>>, default_checked |-> FALSE]

DirectivesParser(directives) == [kind |-> "DirectivesParser", to |-> directives]

DirectiveParser(directives) ==
    [kind |-> "DirectiveParser", to |-> directives,
     name |-> None, arguments |-> <<>>, arguments_checked |-> FALSE]

ArgumentsParser(arguments) == [kind |-> "ArgumentsParser", to |-> arguments]

ArgumentParser(arguments) ==
    [kind |-> "ArgumentParser", to |-> arguments,
     name |-> None, value |-> <<>>, value_parsed |-> FALSE]

SelectionsParser(selections) == [kind |-> "SelectionsParser", to |-> selections]

FieldParser(selections) ==
    [kind |-> "FieldParser", to |-> selections,
     alias |-> None, name |-> None,
     arguments |-> <<>>, directives |-> <<>>, selections |-> <<>>,
     can_be |-> <<"(", "@", "{">>]

ValueParser(set_value, const) ==
    [kind |-> "ValueParser", to |-> set_value, const |-> const]

ListValueParser(set_value, const) ==
    [kind |-> "ListValueParser", to |-> set_value, const |-> const, values |-> <<>>]

ObjectValueParser(set_value, const) ==
    [kind |-> "ObjectValueParser", to |-> set_value, const |-> const, values |-> <<>>]

StringValueParser(set_value) ==
    [kind |-> "StringValueParser", to |-> set_value, value |-> ""]

FragmentSpreadParser(selections) ==
    [kind |-> "FragmentSpreadParser", to |-> selections,
     name |-> None, directives |-> <<>>]

InlineFragmentParser(selections) ==
    [kind |-> "InlineFragmentParser", to |-> selections,
     on_type |-> <<>>, directives |-> <<>>, selections |-> <<>>,
     directives_parsed |-> FALSE, selections_parsed |-> FALSE]

FragmentParser(fragments) ==
    [kind |-> "FragmentParser", to |-> fragments,
     name |-> None, on_type |-> <<>>, directives |-> <<>>, selections |-> <<>>,
     directives_parsed |-> FALSE, selections_parsed |-> FALSE]

\* the list a frame was given, as it is now (len(self.variables), ...)
Referenced(to) == IF to.f = 0 THEN out ELSE stack[to.f][to.slot]

----------------------------------------------------------------------------
(* consume(): what a frame reads when it is pushed.  Result [fr, rd, err]. *)

Consumed(fr, rd, err) == [fr |-> fr, rd |-> rd, err |-> err]

\* VariableDefinitionParser.parse_type with parse_list_type
RECURSIVE parse_type(_)
parse_type(rd) ==
    Let(lookup_ch(rd), LAMBDA l :
    IF l.ch = "["
    THEN Let(assert_ch(l.rd, "["), LAMBDA a :
         IF a.err # "" THEN [rd |-> a.rd, type |-> <<>>, err |-> a.err]
         ELSE Let(parse_type(a.rd), LAMBDA el :
              IF el.err # "" THEN el
              ELSE Let(assert_ch(el.rd, "]"), LAMBDA c :
                   IF c.err # "" THEN [rd |-> c.rd, type |-> <<>>, err |-> c.err]
                   ELSE Let(read_if(c.rd, "!"), LAMBDA b :
                        [rd |-> b.rd, type |-> <<ListType(el.type[1], ~b.ok)>>,
                         err |-> ""]))))
    ELSE Let(read_name(l.rd), LAMBDA n :
         IF n.err # "" THEN [rd |-> n.rd, type |-> <<>>, err |-> n.err]
         ELSE Let(read_if(n.rd, "!"), LAMBDA b :
              [rd |-> b.rd, type |-> <<NamedType(n.name, ~b.ok)>>, err |-> ""])))

OperationParser_consume(fr, rd) ==
    Let(assert_literal(rd, fr.operation_type), LAMBDA a :
    IF a.err # "" THEN Consumed(fr, a.rd, a.err)
    ELSE Let(lookup_ch(a.rd), LAMBDA l :
         IF l.ch \notin Range(fr.expected)
         THEN Let(read_re(NAME_RE, l.rd), LAMBDA n :
              IF n.s = None
              THEN Consumed(fr, n.rd, "One of 'name', '(', '@' or '{' expected")
              ELSE Consumed([fr EXCEPT !.name = n.s], n.rd, ""))
         ELSE Consumed(fr, l.rd, "")))

VariableDefinitionParser_consume(fr, rd) ==
    Let(assert_ch(rd, "$"), LAMBDA a :
    IF a.err # "" THEN Consumed(fr, a.rd, a.err)
    ELSE Let(read_name(a.rd), LAMBDA n :
         IF n.err # "" THEN Consumed(fr, n.rd, n.err)
         ELSE Let(assert_ch(n.rd, ":"), LAMBDA c :
              IF c.err # "" THEN Consumed([fr EXCEPT !.name = n.name], c.rd, c.err)
              ELSE Let(parse_type(c.rd), LAMBDA t :
                   Consumed([fr EXCEPT !.name = n.name, !.type = t.type],
                            t.rd, t.err)))))

DirectiveParser_consume(fr, rd) ==
    Let(assert_ch(rd, "@"), LAMBDA a :
    IF a.err # "" THEN Consumed(fr, a.rd, a.err)
    ELSE Let(read_name(a.rd), LAMBDA n :
         IF n.err # "" THEN Consumed(fr, n.rd, n.err)
         ELSE Consumed([fr EXCEPT !.name = n.name], n.rd, "")))

ArgumentParser_consume(fr, rd) ==
    Let(read_name(rd), LAMBDA n :
    IF n.err # "" THEN Consumed(fr, n.rd, n.err)
    ELSE Let(assert_ch(n.rd, ":"), LAMBDA c :
         Consumed([fr EXCEPT !.name = n.name], c.rd, c.err)))

FieldParser_consume(fr, rd) ==
    Let(read_name(rd), LAMBDA n :
    IF n.err # "" THEN Consumed(fr, n.rd, n.err)
    ELSE Let(read_if(n.rd, ":"), LAMBDA c :
         IF c.ok
         THEN Let(read_name(c.rd), LAMBDA m :
              IF m.err # "" THEN Consumed([fr EXCEPT !.alias = n.name], m.rd, m.err)
              ELSE Consumed([fr EXCEPT !.alias = n.name, !.name = m.name], m.rd, ""))
         ELSE Consumed([fr EXCEPT !.name = n.name], c.rd, "")))

FragmentSpreadParser_consume(fr, rd) ==
    Let(assert_literal(rd, "..."), LAMBDA a :
    IF a.err # "" THEN Consumed(fr, a.rd, a.err)
    ELSE Let(read_name(a.rd), LAMBDA n :
         IF n.err # "" THEN Consumed(fr, n.rd, n.err)
         ELSE Consumed([fr EXCEPT !.name = n.name], n.rd, "")))

InlineFragmentParser_consume(fr, rd) ==
    Let(assert_literal(rd, "..."), LAMBDA a :
    IF a.err # "" THEN Consumed(fr, a.rd, a.err)
    ELSE Let(try_literal(a.rd, "on"), LAMBDA o :
         IF o.ok
         THEN Let(read_name(o.rd), LAMBDA n :
              IF n.err # "" THEN Consumed(fr, n.rd, n.err)
              ELSE Consumed([fr EXCEPT !.on_type = <<NamedType(n.name, TRUE)>>],
                            n.rd, ""))
         ELSE Consumed(fr, o.rd, "")))

FragmentParser_consume(fr, rd) ==
    Let(assert_literal(rd, "fragment"), LAMBDA a :
    IF a.err # "" THEN Consumed(fr, a.rd, a.err)
    ELSE Let(read_name(a.rd), LAMBDA n :
         IF n.err # "" THEN Consumed(fr, n.rd, n.err)
         ELSE IF n.name = "on"
         THEN Consumed([fr EXCEPT !.name = n.name], n.rd,
                       "Fragment can not have name \"on\"")
         ELSE Let(assert_literal(n.rd, "on"), LAMBDA o :
              IF o.err # "" THEN Consumed([fr EXCEPT !.name = n.name], o.rd, o.err)
              ELSE Let(read_name(o.rd), LAMBDA tn :
                   IF tn.err # ""
                   THEN Consumed([fr EXCEPT !.name = n.name], tn.rd, tn.err)
                   ELSE Consumed([fr EXCEPT !.name = n.name,
                                            !.on_type = <<NamedType(tn.name, TRUE)>>],
                                 tn.rd, "")))))

\* the frames whose consume only asserts their opening character
AssertOpening(fr, rd, ch) ==
    Let(assert_ch(rd, ch), LAMBDA a : Consumed(fr, a.rd, a.err))

\* parser.consume(reader), by the class of the frame
consume(fr, rd) ==
    CASE fr.kind = "DocumentParser"           -> Consumed(fr, rd, "")
      [] fr.kind = "OperationParser"          -> OperationParser_consume(fr, rd)
      [] fr.kind = "VariablesParser"          -> AssertOpening(fr, rd, "(")
      [] fr.kind = "VariableDefinitionParser" -> VariableDefinitionParser_consume(fr, rd)
      [] fr.kind = "DirectivesParser"         -> Consumed(fr, rd, "")
      [] fr.kind = "DirectiveParser"          -> DirectiveParser_consume(fr, rd)
      [] fr.kind = "ArgumentsParser"          -> AssertOpening(fr, rd, "(")
      [] fr.kind = "ArgumentParser"           -> ArgumentParser_consume(fr, rd)
      [] fr.kind = "SelectionsParser"         -> AssertOpening(fr, rd, "{")
      [] fr.kind = "FieldParser"              -> FieldParser_consume(fr, rd)
      [] fr.kind = "ValueParser"              -> Consumed(fr, rd, "")
      [] fr.kind = "ListValueParser"          -> AssertOpening(fr, rd, "[")
      [] fr.kind = "ObjectValueParser"        -> AssertOpening(fr, rd, "{")
      [] fr.kind = "StringValueParser"        -> AssertOpening(fr, rd, "\"")
      [] fr.kind = "FragmentSpreadParser"     -> FragmentSpreadParser_consume(fr, rd)
      [] fr.kind = "InlineFragmentParser"     -> InlineFragmentParser_consume(fr, rd)
      [] fr.kind = "FragmentParser"           -> FragmentParser_consume(fr, rd)

----------------------------------------------------------------------------
(* next(): one step of a frame at stack position p.  The result tells the  *)
(* drive loop what the call did: fr is the frame after the call, rd the    *)
(* reader after it, add the frame returned as to_add (a sequence of length *)
(* 0 or 1), rem the remove_count, dl the nodes handed over by the call     *)
(* (each with the reference it was handed to), exc the class of the        *)
(* exception raised ("" if none) and err its message.                      *)

Stepped(fr, rd, add, rem, dl) ==
    [fr |-> fr, rd |-> rd, add |-> add, rem |-> rem, dl |-> dl, exc |-> "", err |-> ""]

\* return child, 0
Push(fr, rd, child) == Stepped(fr, rd, <<child>>, 0, <<>>)

\* return None, 1 after handing node to the reference `to`
PopWith(fr, rd, to, node) == Stepped(fr, rd, <<>>, 1, <<[to |-> to, node |-> node]>>)

\* raise GqlParsingError(msg, reader)
Raise(fr, rd, msg) ==
    [fr |-> fr, rd |-> rd, add |-> <<>>, rem |-> 0, dl |-> <<>>,
     exc |-> "GqlParsingError", err |-> msg]

\* raise RuntimeError(msg)
RaiseRuntime(fr, rd, msg) ==
    [fr |-> fr, rd |-> rd, add |-> <<>>, rem |-> 0, dl |-> <<>>,
     exc |-> "RuntimeError", err |-> msg]

\* DocumentParser.next had it put the shorthand operation in front of the
\* operations read before it
DocumentParser_next_ShorthandFirst(p, fr, rd) ==
    LET fr1 == IF Len(fr.selections) > 0
               THEN [fr EXCEPT !.operations =
                                  <<Query(None, <<>>, <<>>, fr.selections)>> \o @,
                               !.selections = <<>>]
               ELSE fr
        l == lookup_ch(rd)
    IN  IF fr1.selection_allowed /\ l.ch = "{"
        THEN Push([fr1 EXCEPT !.selection_allowed = FALSE, !.query_allowed = FALSE],
                  l.rd, SelectionsParser(ListRef(p, "selections")))
        ELSE IF l.ch = "m"
        THEN Push(fr1, l.rd, OperationParser("mutation", ListRef(p, "operations")))
        ELSE IF fr1.query_allowed /\ l.ch = "q"
        THEN Push([fr1 EXCEPT !.selection_allowed = FALSE],
                  l.rd, OperationParser("query", ListRef(p, "operations")))
        ELSE IF l.ch = "f"
        THEN Push(fr1, l.rd, FragmentParser(ListRef(p, "fragments")))
        ELSE IF l.ch = None
        THEN PopWith(fr1, l.rd, fr1.to, Document(fr1.operations, fr1.fragments))
        ELSE Raise(fr1, l.rd, "One of top-level declaration expected")

\* DocumentParser.next had the shorthand branch not cleared query_allowed:
\* the mutation of the code that C1 must tell from the code
DocumentParser_next_QueryStaysAllowed(p, fr, rd) ==
    LET fr1 == IF Len(fr.selections) > 0
               THEN [fr EXCEPT !.operations =
                                  Append(@, Query(None, <<>>, <<>>, fr.selections)),
                               !.selections = <<>>]
               ELSE fr
        l == lookup_ch(rd)
    IN  IF fr1.selection_allowed /\ l.ch = "{"
        THEN Push([fr1 EXCEPT !.selection_allowed = FALSE],
                  l.rd, SelectionsParser(ListRef(p, "selections")))
        ELSE IF l.ch = "m"
        THEN Push(fr1, l.rd, OperationParser("mutation", ListRef(p, "operations")))
        ELSE IF fr1.query_allowed /\ l.ch = "q"
        THEN Push([fr1 EXCEPT !.selection_allowed = FALSE],
                  l.rd, OperationParser("query", ListRef(p, "operations")))
        ELSE IF l.ch = "f"
        THEN Push(fr1, l.rd, FragmentParser(ListRef(p, "fragments")))
        ELSE IF l.ch = None
        THEN PopWith(fr1, l.rd, fr1.to, Document(fr1.operations, fr1.fragments))
        ELSE Raise(fr1, l.rd, "One of top-level declaration expected")

DocumentParser_next(p, fr, rd) ==
    LET fr1 == IF Len(fr.selections) > 0
               THEN [fr EXCEPT !.operations =
                                  Append(@, Query(None, <<>>, <<>>, fr.selections)),
                               !.selections = <<>>]
               ELSE fr
        l == lookup_ch(rd)
    IN  IF fr1.selection_allowed /\ l.ch = "{"
        THEN Push([fr1 EXCEPT !.selection_allowed = FALSE, !.query_allowed = FALSE],
                  l.rd, SelectionsParser(ListRef(p, "selections")))
        ELSE IF l.ch = "m"
        THEN Push(fr1, l.rd, OperationParser("mutation", ListRef(p, "operations")))
        ELSE IF fr1.query_allowed /\ l.ch = "q"
        THEN Push([fr1 EXCEPT !.selection_allowed = FALSE],
                  l.rd, OperationParser("query", ListRef(p, "operations")))
        ELSE IF l.ch = "f"
        THEN Push(fr1, l.rd, FragmentParser(ListRef(p, "fragments")))
        ELSE IF l.ch = None
        THEN PopWith(fr1, l.rd, fr1.to, Document(fr1.operations, fr1.fragments))
        ELSE Raise(fr1, l.rd, "One of top-level declaration expected")

\* OperationParser.next had it kept ( expected after the directives: the
\* mutation of the code that C19 must tell from the code
OperationParser_next_VariablesLate(p, fr, rd) ==
    IF Len(fr.expected) = 0
    THEN IF fr.operation_type = "query"
         THEN PopWith(fr, rd, fr.to,
                      Query(fr.name, fr.variables, fr.directives, fr.selections))
         ELSE PopWith(fr, rd, fr.to,
                      Mutation(fr.name, fr.variables, fr.directives, fr.selections))
    ELSE LET l == lookup_ch(rd) IN
         IF l.ch \notin Range(fr.expected)
         THEN Raise(fr, l.rd, LiteralExpected(fr.expected))
         ELSE IF l.ch = "("
         THEN \* next_variables
              Push([fr EXCEPT !.expected = Without(@, "(")], l.rd,
                   VariablesParser(ListRef(p, "variables")))
         ELSE IF l.ch = "@"
         THEN \* next_directives
              Push([fr EXCEPT !.expected = Without(@, "@")], l.rd,
                   DirectivesParser(ListRef(p, "directives")))
         ELSE \* next_selections
              Push([fr EXCEPT !.expected = <<>>], l.rd,
                   SelectionsParser(ListRef(p, "selections")))

OperationParser_next(p, fr, rd) ==
    IF Len(fr.expected) = 0
    THEN IF fr.operation_type = "query"
         THEN PopWith(fr, rd, fr.to,
                      Query(fr.name, fr.variables, fr.directives, fr.selections))
         ELSE PopWith(fr, rd, fr.to,
                      Mutation(fr.name, fr.variables, fr.directives, fr.selections))
    ELSE LET l == lookup_ch(rd) IN
         IF l.ch \notin Range(fr.expected)
         THEN Raise(fr, l.rd, LiteralExpected(fr.expected))
         ELSE IF l.ch = "("
         THEN \* next_variables
              Push([fr EXCEPT !.expected = Without(@, "(")], l.rd,
                   VariablesParser(ListRef(p, "variables")))
         ELSE IF l.ch = "@"
         THEN \* next_directives
              Push([fr EXCEPT !.expected = Without(Without(@, "("), "@")], l.rd,
                   DirectivesParser(ListRef(p, "directives")))
         ELSE \* next_selections
              Push([fr EXCEPT !.expected = <<>>], l.rd,
                   SelectionsParser(ListRef(p, "selections")))

VariablesParser_next(p, fr, rd) ==
    LET l == lookup_ch(rd) IN
    IF l.ch = "$" THEN Push(fr, l.rd, VariableDefinitionParser(fr.to))
    ELSE IF l.ch = ")"
    THEN IF Len(Referenced(fr.to)) = 0
         THEN Raise(fr, l.rd, "Empty variable definition is not allowed")
         ELSE Stepped(fr, read_ch(l.rd).rd, <<>>, 1, <<>>)
    ELSE Raise(fr, l.rd, LiteralExpected(<<"$", ")">>))

VariableDefinitionParser_next(p, fr, rd) ==
    LET check == ~fr.default_checked
        fr1   == [fr EXCEPT !.default_checked = TRUE]
        eq    == IF check THEN read_if(rd, "=") ELSE [rd |-> rd, ok |-> FALSE]
    IN  IF check /\ eq.ok
        THEN Push(fr1, eq.rd, ValueParser(Callback(p, "default", "assign", ""), TRUE))
        ELSE IF fr1.name = None \/ Len(fr1.type) = 0
        THEN RaiseRuntime(fr1, eq.rd, "Unexpected 'None'")
        ELSE PopWith(fr1, eq.rd, fr1.to,
                     VariableDefinition(fr1.name, fr1.type[1], fr1.default))

\* DirectivesParser.next had it returned None, 0 where no directive follows
DirectivesParser_next_Stays(p, fr, rd) ==
    LET l == lookup_ch(rd) IN
    IF l.ch = "@" THEN Push(fr, l.rd, DirectiveParser(fr.to))
    ELSE Stepped(fr, rd, <<>>, 0, <<>>)

DirectivesParser_next(p, fr, rd) ==
    LET l == lookup_ch(rd) IN
    IF l.ch = "@" THEN Push(fr, l.rd, DirectiveParser(fr.to))
    ELSE Stepped(fr, l.rd, <<>>, 1, <<>>)

DirectiveParser_next(p, fr, rd) ==
    LET check == ~fr.arguments_checked
        fr1   == [fr EXCEPT !.arguments_checked = TRUE]
        l     == IF check THEN lookup_ch(rd) ELSE [rd |-> rd, ch |-> None]
    IN  IF check /\ l.ch = "("
        THEN Push(fr1, l.rd, ArgumentsParser(ListRef(p, "arguments")))
        ELSE IF fr1.name = None
        THEN RaiseRuntime(fr1, l.rd, "Unexpected 'None'")
        ELSE PopWith(fr1, l.rd, fr1.to, Directive(fr1.name, fr1.arguments))

ArgumentsParser_next(p, fr, rd) ==
    LET r == read_if(rd, ")") IN
    IF r.ok
    THEN IF Len(Referenced(fr.to)) = 0
         THEN Raise(fr, r.rd, "Empty arguments list is not allowed")
         ELSE Stepped(fr, r.rd, <<>>, 1, <<>>)
    ELSE Push(fr, r.rd, ArgumentParser(fr.to))

ArgumentParser_next(p, fr, rd) ==
    IF fr.value_parsed
    THEN IF fr.name = None \/ Len(fr.value) = 0
         THEN RaiseRuntime(fr, rd, "Unexpected 'None'")
         ELSE PopWith(fr, rd, fr.to, Argument(fr.name, fr.value[1]))
    ELSE Push([fr EXCEPT !.value_parsed = TRUE], rd,
              ValueParser(Callback(p, "value", "assign", ""), FALSE))

SelectionsParser_next(p, fr, rd) ==
    LET r == read_if(rd, "}") IN
    IF r.ok
    THEN IF Len(Referenced(fr.to)) = 0
         THEN Raise(fr, r.rd, "Empty selection set is not allowed")
         ELSE Stepped(fr, r.rd, <<>>, 1, <<>>)
    ELSE LET l == lookup_ch(r.rd) IN
         IF l.ch = "."
         THEN LET m == DetectFragmentSpread(l.rd.index) IN
              IF m # None /\ m # "on"
              THEN Push(fr, l.rd, FragmentSpreadParser(fr.to))
              ELSE Push(fr, l.rd, InlineFragmentParser(fr.to))
         ELSE Push(fr, l.rd, FieldParser(fr.to))

FieldParser_next(p, fr, rd) ==
    LET l == lookup_ch(rd) IN
    IF l.ch \in Range(fr.can_be)
    THEN IF l.ch = "("
         THEN \* next_arguments
              Push([fr EXCEPT !.can_be = Without(@, "(")], l.rd,
                   ArgumentsParser(ListRef(p, "arguments")))
         ELSE IF l.ch = "@"
         THEN \* next_directives
              Push([fr EXCEPT !.can_be = Without(Without(@, "("), "@")], l.rd,
                   DirectivesParser(ListRef(p, "directives")))
         ELSE \* next_selections
              Push([fr EXCEPT !.can_be = <<>>], l.rd,
                   SelectionsParser(ListRef(p, "selections")))
    ELSE IF fr.name = None
    THEN RaiseRuntime(fr, l.rd, "Unexpected 'None'")
    ELSE PopWith(fr, l.rd, fr.to,
                 FieldSelection(fr.alias, fr.name, fr.arguments, fr.directives,
                                fr.selections))

ValueParser_next(p, fr, rd) ==
    LET l == lookup_ch(rd) IN
    IF l.ch = "$"
    THEN IF fr.const THEN Raise(fr, l.rd, "Unexpected '$'")
         ELSE LET a == assert_ch(l.rd, "$")
                  n == read_name(a.rd)
              IN  IF n.err # "" THEN Raise(fr, n.rd, n.err)
                  ELSE PopWith(fr, n.rd, fr.to, Variable(n.name))
    ELSE IF l.ch = "\""
    THEN Stepped(fr, l.rd, <<StringValueParser(fr.to)>>, 1, <<>>)
    ELSE IF l.ch = "["
    THEN Stepped(fr, l.rd, <<ListValueParser(fr.to, fr.const)>>, 1, <<>>)
    ELSE IF l.ch = "{"
    THEN Stepped(fr, l.rd, <<ObjectValueParser(fr.to, fr.const)>>, 1, <<>>)
    ELSE LET t == try_literal(l.rd, "true") IN
    IF t.ok THEN PopWith(fr, t.rd, fr.to, BoolValue(TRUE))
    ELSE LET f == try_literal(t.rd, "false") IN
    IF f.ok THEN PopWith(fr, f.rd, fr.to, BoolValue(FALSE))
    ELSE LET u == try_literal(f.rd, "null") IN
    IF u.ok THEN PopWith(fr, u.rd, fr.to, NullValue)
    ELSE LET e == read_re(NAME_RE, u.rd) IN
    IF e.s # None THEN PopWith(fr, e.rd, fr.to, EnumValue(e.s))
    ELSE LET x == read_re(FLOAT_RE, e.rd) IN
    IF x.s # None THEN PopWith(fr, x.rd, fr.to, FloatValue(ToFloat(x.s)))
    ELSE LET i == read_re(INT_RE, x.rd) IN
    IF i.s # None THEN PopWith(fr, i.rd, fr.to, IntValue(ToInt(i.s)))
    ELSE Raise(fr, i.rd, "Value expected")

\* ListValueParser.next had it started the frames of its items without its
\* const flag: the mutation of the code that C17 must tell from the code
ListValueParser_next_ConstDropped(p, fr, rd) ==
    LET r == read_if(rd, "]") IN
    IF r.ok
    THEN IF fr.const
         THEN PopWith(fr, r.rd, fr.to, ConstListValue(fr.values))
         ELSE PopWith(fr, r.rd, fr.to, ListValue(fr.values))
    ELSE Push(fr, r.rd, ValueParser(Callback(p, "values", "append", ""), FALSE))

ListValueParser_next(p, fr, rd) ==
    LET r == read_if(rd, "]") IN
    IF r.ok
    THEN IF fr.const
         THEN PopWith(fr, r.rd, fr.to, ConstListValue(fr.values))
         ELSE PopWith(fr, r.rd, fr.to, ListValue(fr.values))
    ELSE Push(fr, r.rd, ValueParser(Callback(p, "values", "append", ""), fr.const))

ObjectValueParser_next(p, fr, rd) ==
    LET r == read_if(rd, "}") IN
    IF r.ok
    THEN IF fr.const
         THEN PopWith(fr, r.rd, fr.to, ConstObjectValue(fr.values))
         ELSE PopWith(fr, r.rd, fr.to, ObjectValue(fr.values))
    ELSE LET n == read_name(r.rd) IN
         IF n.err # "" THEN Raise(fr, n.rd, n.err)
         ELSE LET c == assert_ch(n.rd, ":") IN
              IF c.err # "" THEN Raise(fr, c.rd, c.err)
              ELSE Push(fr, c.rd,
                        ValueParser(Callback(p, "values", "dictset", n.name), fr.const))

\* StringValueParser.parse_unicode: four hex digits, read raw
RECURSIVE parse_unicode(_, _, _)
parse_unicode(rd, digits, left) ==
    IF left = 0
    THEN [rd |-> rd, s |-> Chr(DigitsValue(digits, 16, 0)), err |-> ""]
    ELSE LET r == str_read_ch(rd) IN
         IF r.ch \in HEX_DIGITS THEN parse_unicode(r.rd, digits \o r.ch, left - 1)
         ELSE [rd |-> r.rd, s |-> "", err |-> "Hex digit expected"]

\* StringValueParser.parse_escape
parse_escape(rd) ==
    LET r == str_read_ch(rd) IN
    IF r.ch = "u" THEN parse_unicode(r.rd, "", 4)
    ELSE IF r.ch \in {"\"", "\\", "/"} THEN [rd |-> r.rd, s |-> r.ch, err |-> ""]
    ELSE IF r.ch = "b" THEN [rd |-> r.rd, s |-> Chr(8), err |-> ""]
    ELSE IF r.ch = "f" THEN [rd |-> r.rd, s |-> Chr(12), err |-> ""]
    ELSE IF r.ch = "n" THEN [rd |-> r.rd, s |-> "\n", err |-> ""]
    ELSE IF r.ch = "r" THEN [rd |-> r.rd, s |-> "\r", err |-> ""]
    ELSE IF r.ch = "t" THEN [rd |-> r.rd, s |-> "\t", err |-> ""]
    ELSE [rd |-> r.rd, s |-> "",
          err |-> "Unexpected symbol '" \o r.ch \o "' after '\\' in string literal"]

\* the while loop of StringValueParser.next
RECURSIVE StringValueParser_loop(_, _)
StringValueParser_loop(fr, rd) ==
    LET r == str_read_ch(rd) IN
    IF r.ch = "\"" THEN PopWith(fr, r.rd, fr.to, StrValue(fr.value))
    ELSE IF r.ch = "\\"
    THEN LET e == parse_escape(r.rd) IN
         IF e.err # "" THEN Raise(fr, e.rd, e.err)
         ELSE StringValueParser_loop([fr EXCEPT !.value = @ \o e.s], e.rd)
    ELSE IF r.ch \in {"\n", "\r"}
    THEN Raise(fr, r.rd, "New line is not allowed in string literal")
    ELSE IF r.ch = None THEN Raise(fr, r.rd, "Unexpected end of input")
    ELSE StringValueParser_loop([fr EXCEPT !.value = @ \o r.ch], r.rd)

StringValueParser_next(p, fr, rd) == StringValueParser_loop(fr, rd)

FragmentSpreadParser_next(p, fr, rd) ==
    LET l == lookup_ch(rd) IN
    IF l.ch = "@" THEN Push(fr, l.rd, DirectivesParser(ListRef(p, "directives")))
    ELSE IF fr.name = None THEN RaiseRuntime(fr, l.rd, "Unexpected 'None'")
    ELSE PopWith(fr, l.rd, fr.to, FragmentSpread(fr.name, fr.directives))

InlineFragmentParser_next(p, fr, rd) ==
    LET l == IF ~fr.directives_parsed THEN lookup_ch(rd) ELSE [rd |-> rd, ch |-> None] IN
    IF ~fr.directives_parsed /\ l.ch = "@"
    THEN Push([fr EXCEPT !.directives_parsed = TRUE], l.rd,
              DirectivesParser(ListRef(p, "directives")))
    ELSE IF ~fr.selections_parsed
    THEN Push([fr EXCEPT !.directives_parsed = TRUE, !.selections_parsed = TRUE], l.rd,
              SelectionsParser(ListRef(p, "selections")))
    ELSE PopWith(fr, l.rd, fr.to,
                 InlineFragment(fr.on_type, fr.directives, fr.selections))

FragmentParser_next(p, fr, rd) ==
    LET l == IF ~fr.directives_parsed THEN lookup_ch(rd) ELSE [rd |-> rd, ch |-> None] IN
    IF ~fr.directives_parsed /\ l.ch = "@"
    THEN Push([fr EXCEPT !.directives_parsed = TRUE], l.rd,
              DirectivesParser(ListRef(p, "directives")))
    ELSE IF ~fr.selections_parsed
    THEN Push([fr EXCEPT !.directives_parsed = TRUE, !.selections_parsed = TRUE], l.rd,
              SelectionsParser(ListRef(p, "selections")))
    ELSE IF fr.name = None \/ Len(fr.on_type) = 0
    THEN RaiseRuntime(fr, l.rd, "Unexpected 'None'")
    ELSE PopWith(fr, l.rd, fr.to,
                 Fragment(fr.name, fr.on_type[1], fr.directives, fr.selections))

----------------------------------------------------------------------------
(* The drive loop: parse() and push_to_stack().                            *)

\* the callback or list.append behind a reference, applied to a frame
Put(frame, to, node) ==
    [frame EXCEPT ![to.slot] =
        IF to.mode = "append" THEN Append(@, node)
        ELSE IF to.mode = "assign" THEN <<node>>
        ELSE DictSet(@, to.key, node)]

\* the stack and the caller's list after the frames handed over dl
RECURSIVE Delivered(_, _, _)
Delivered(stk, o, dl) ==
    IF Len(dl) = 0 THEN [stack |-> stk, out |-> o]
    ELSE LET d == Head(dl) IN
         IF d.to.f = 0
         THEN Delivered(stk, Append(o, d.node), Tail(dl))
         ELSE Delivered([stk EXCEPT ![d.to.f] = Put(@, d.to, d.node)], o, Tail(dl))

NoProgressMsg ==
    "Parser did no change during a step, stop parsing to prevent looping forever"

\* whether the loop takes the step for one in which the parser did nothing
DidNothing(res, index_before) ==
    Len(res.add) = 0 /\ res.rem = 0 /\ index_before = res.rd.index

\* push_to_stack(stack, parser, reader) on the stack stk: the frame is
\* appended and consumes; a GqlParsingError of consume ends the parse
push_to_stack(stk, parser, rd) ==
    \E c \in {consume(parser, rd)} :
        /\ stack' = Append(stk, c.fr)
        /\ reader' = c.rd
        /\ pstate' = IF c.err # "" THEN "GqlParsingError" ELSE "parsing"
        /\ perr' = c.err

\* parse(text_input, initial_parser) up to the loop
parse_begin ==
    /\ pstate = "idle"
    /\ push_to_stack(<<>>, initial, reader)
    /\ UNCHANGED <<text, out, initial, parts, nsteps, svars, qvars, rvars>>

\* the body of the loop had it not removed the frames that next() asked to
\* remove: the mutation of the code that C2 must tell from the code
Drive_NoRemove(res) ==
    LET top == Len(stack)
        d   == Delivered([stack EXCEPT ![top] = res.fr], out, res.dl)
        cut == d.stack
    IN  /\ out' = d.out
        /\ IF res.exc # ""
           THEN /\ stack' = d.stack
                /\ reader' = res.rd
                /\ pstate' = res.exc
                /\ perr' = res.err
           ELSE IF DidNothing(res, reader.index)
           THEN /\ stack' = d.stack
                /\ reader' = res.rd
                /\ pstate' = "RuntimeError"
                /\ perr' = NoProgressMsg
           ELSE IF Len(res.add) > 0
           THEN push_to_stack(cut, res.add[1], res.rd)
           ELSE /\ stack' = cut
                /\ reader' = res.rd
                /\ UNCHANGED <<pstate, perr>>
        /\ nsteps' = nsteps + 1
        /\ UNCHANGED <<text, initial, parts, svars, qvars, rvars>>

\* the body of the loop for the result res of parser.next(reader)
Drive(res) ==
    LET top == Len(stack)
        d   == Delivered([stack EXCEPT ![top] = res.fr], out, res.dl)
        cut == SubSeq(d.stack, 1, top - res.rem)
    IN  /\ out' = d.out
        /\ IF res.exc # ""
           THEN /\ stack' = d.stack
                /\ reader' = res.rd
                /\ pstate' = res.exc
                /\ perr' = res.err
           ELSE IF DidNothing(res, reader.index)
           THEN /\ stack' = d.stack
                /\ reader' = res.rd
                /\ pstate' = "RuntimeError"
                /\ perr' = NoProgressMsg
           ELSE IF Len(res.add) > 0
           THEN push_to_stack(cut, res.add[1], res.rd)
           ELSE /\ stack' = cut
                /\ reader' = res.rd
                /\ UNCHANGED <<pstate, perr>>
        /\ nsteps' = nsteps + 1
        /\ UNCHANGED <<text, initial, parts, svars, qvars, rvars>>

\* parser.next(reader) for the frame fr at stack position p, by its class
next(p, fr, rd) ==
    CASE fr.kind = "DocumentParser"          -> DocumentParser_next(p, fr, rd)
      [] fr.kind = "OperationParser"         -> OperationParser_next(p, fr, rd)
      [] fr.kind = "VariablesParser"         -> VariablesParser_next(p, fr, rd)
      [] fr.kind = "VariableDefinitionParser"-> VariableDefinitionParser_next(p, fr, rd)
      [] fr.kind = "DirectivesParser"        -> DirectivesParser_next(p, fr, rd)
      [] fr.kind = "DirectiveParser"         -> DirectiveParser_next(p, fr, rd)
      [] fr.kind = "ArgumentsParser"         -> ArgumentsParser_next(p, fr, rd)
      [] fr.kind = "ArgumentParser"          -> ArgumentParser_next(p, fr, rd)
      [] fr.kind = "SelectionsParser"        -> SelectionsParser_next(p, fr, rd)
      [] fr.kind = "FieldParser"             -> FieldParser_next(p, fr, rd)
      [] fr.kind = "ValueParser"             -> ValueParser_next(p, fr, rd)
      [] fr.kind = "ListValueParser"         -> ListValueParser_next(p, fr, rd)
      [] fr.kind = "ObjectValueParser"       -> ObjectValueParser_next(p, fr, rd)
      [] fr.kind = "StringValueParser"       -> StringValueParser_next(p, fr, rd)
      [] fr.kind = "FragmentSpreadParser"    -> FragmentSpreadParser_next(p, fr, rd)
      [] fr.kind = "InlineFragmentParser"    -> InlineFragmentParser_next(p, fr, rd)
      [] fr.kind = "FragmentParser"          -> FragmentParser_next(p, fr, rd)

\* one iteration of the loop of parse() on a stack that is not empty
parse_step ==
    /\ pstate = "parsing"
    /\ Len(stack) > 0
    /\ Drive(next(Len(stack), stack[Len(stack)], reader))

\* the loop had it returned on the empty stack without looking at what is
\* left: the mutation of the code that C18 must tell from the code
parse_end_Unchecked ==
    /\ pstate = "parsing"
    /\ Len(stack) = 0
    /\ reader' = reader
    /\ pstate' = "done"
    /\ perr' = ""
    /\ UNCHANGED <<text, stack, out, initial, parts, nsteps, svars, qvars, rvars>>

\* the loop finds the stack empty: everything must have been read
parse_end ==
    /\ pstate = "parsing"
    /\ Len(stack) = 0
    /\ LET l == lookup_ch(reader) IN
       /\ reader' = l.rd
       /\ pstate' = IF l.ch # None THEN "GqlParsingError" ELSE "done"
       /\ perr' = IF l.ch # None THEN "Not all input parsed" ELSE ""
    /\ UNCHANGED <<text, stack, out, initial, parts, nsteps, svars, qvars, rvars>>

----------------------------------------------------------------------------
(* The inputs of the parser.                                               *)

\* the sequences over S of length at most n
SeqUpTo(S, n) == UNION {[1..k -> S] : k \in 0..n}

\* sep.join(pieces)
RECURSIVE Join(_, _)
Join(pieces, sep) ==
    IF Len(pieces) = 0 THEN ""
    ELSE IF Len(pieces) = 1 THEN pieces[1]
    ELSE pieces[1] \o sep \o Join(Tail(pieces), sep)

\* how many top-level declarations a document text is made of
MaxParts == 3

\* how many tokens the text given to a single frame is made of
MaxTokens == 2

\* top-level declarations, by what they declare: shorthand operations,
\* query operations, mutation operations, and what declares no operation
\* (a fragment, a comment line)
ShorthandDecls == {"{a}"}

QueryDecls == {"query {a}", "query q {a b}"}

MutationDecls ==
    {"mutation {a}",
     "mutation m($v: [Int!]! = [1, 2]) @d(x: {k: \"s\"}) {r: a(x: $v, y: 1.5e1) @e {c} ... f ... on T @d {a} ...{b}}"}

OtherDecls == {"fragment f on T @d {a}", "# c\n"}

WellFormedDecls == ShorthandDecls \cup QueryDecls \cup MutationDecls \cup OtherDecls

\* the pieces of the document texts: the declarations and a stray brace
Declarations == WellFormedDecls \cup {"}"}

\* tokens for the texts that single frames are started on
Tokens ==
    {"$v", ": Int", "= 1", "[", "]", "{", "}", "(", ")", "@d", "a", "x: 1",
     "\"s\"", "...", "on T", "query", "fragment f", "1.", "01", "\"\\u0041\\n", ""}

\* the frames the callers of parse() start it with
InitialParsers ==
    {DocumentParser(Caller),
     OperationParser("query", Caller), OperationParser("mutation", Caller),
     VariablesParser(Caller), VariableDefinitionParser(Caller),
     DirectivesParser(Caller), DirectiveParser(Caller),
     ArgumentsParser(Caller), ArgumentParser(Caller),
     SelectionsParser(Caller), FieldParser(Caller),
     ValueParser(Caller, FALSE), ValueParser(Caller, TRUE),
     ListValueParser(Caller, FALSE), ObjectValueParser(Caller, TRUE),
     StringValueParser(Caller),
     FragmentSpreadParser(Caller), InlineFragmentParser(Caller),
     FragmentParser(Caller)}

\* parse_document(text) for documents of declarations, and parse(text,
\* parser) of any frame on short texts
ParserInputs ==
    {[initial |-> DocumentParser(Caller), parts |-> ps] :
        ps \in SeqUpTo(Declarations, MaxParts)}
    \cup
    {[initial |-> f, parts |-> ps] :
        f \in InitialParsers, ps \in SeqUpTo(Tokens, MaxTokens)}

\* no schema is constructed
SchemaUnused ==
    /\ schema = <<>>
    /\ sstate = "none"
    /\ serr = ""
    /\ resolved = {}

\* neither validate() nor Executor.query() is called
QueryUnused ==
    /\ call = <<>>
    /\ vresult = <<>>
    /\ qresult = <<>>
    /\ runner = <<>>

\* parse() is called once
ParsedOnce ==
    /\ first = <<>>
    /\ again = <<>>
    /\ given = <<>>
    /\ answer = <<>>
    /\ waiting = <<>>
    /\ alone = <<>>

ParserInit ==
    /\ \E inp \in ParserInputs :
          /\ initial = inp.initial
          /\ parts = inp.parts
          /\ text = Join(inp.parts, " ")
    /\ reader = [index |-> 0, lineno |-> 1]
    /\ stack = <<>>
    /\ out = <<>>
    /\ pstate = "idle"
    /\ perr = ""
    /\ nsteps = 0
    /\ SchemaUnused
    /\ QueryUnused
    /\ ParsedOnce

ParserNext ==
    \/ parse_begin
    \/ parse_step
    \/ parse_end

SpecParser == ParserInit /\ [][ParserNext]_vars

----------------------------------------------------------------------------
(* Properties of the parser.                                               *)

\* parse() has ended: it returned or it raised
ParseEnded == pstate \in {"done", "GqlParsingError", "RuntimeError"}

\* how many of the pieces of the text are declarations of the set S
Count(S) == Cardinality({i \in 1..Len(parts) : parts[i] \in S})

\* parse_document has ended on a text made of well-formed declarations, at
\* least one of them a shorthand operation
ShorthandDocumentParsed ==
    /\ ParseEnded
    /\ initial = DocumentParser(Caller)
    /\ \A i \in 1..Len(parts) : parts[i] \in WellFormedDecls
    /\ Count(ShorthandDecls) >= 1

\* C1 as stated: a document with a shorthand operation is accepted if and
\* only if the shorthand is its only operation; with any other operation
\* (shorthand, query or mutation) parsing raises a Parsing error.
C1_ShorthandOnlyOperation ==
    ShorthandDocumentParsed =>
        /\ pstate = "done" <=>
               Count(ShorthandDecls \cup QueryDecls \cup MutationDecls) = 1
        /\ pstate # "done" => pstate = "GqlParsingError"

\* C1 as amended: a document with a shorthand operation is accepted if and
\* only if it holds no other shorthand and no query operation (mutation
\* operations may accompany the shorthand, before or after it); otherwise
\* parsing raises a Parsing error.
C1_ShorthandExcludesQueries ==
    ShorthandDocumentParsed =>
        /\ pstate = "done" <=> Count(ShorthandDecls \cup QueryDecls) = 1
        /\ pstate = "done" =>
               /\ Len(out) = 1
               /\ Len(out[1].operations) =
                      Count(ShorthandDecls \cup QueryDecls \cup MutationDecls)
        /\ pstate # "done" => pstate = "GqlParsingError"

\* C1: a shorthand operation followed or preceded by a query operation was
\* rejected with a Parsing error
C1_Witness ==
    /\ ShorthandDocumentParsed
    /\ Count(QueryDecls) >= 1
    /\ pstate = "GqlParsingError"
    /\ perr = "One of top-level declaration expected"

\* the iterations of the loop are paid for by the characters read: every
\* frame but the first is pushed by one call of next() and removed by
\* another, and reads at least one character of its own
StepsPaidFor ==
    /\ nsteps <= 2 * reader.index + 2
    /\ reader.index <= Len(text)

\* the classes of the frames
FrameKinds == {f.kind : f \in InitialParsers}

\* as long as parse() has neither returned nor raised it has a step to
\* take: the first push, the call of next() of the top frame, or the return
NeverStuck ==
    /\ pstate \in {"idle", "parsing", "done", "GqlParsingError", "RuntimeError"}
    /\ pstate = "parsing" =>
           \A i \in 1..Len(stack) : stack[i].kind \in FrameKinds

\* C2: parse() terminates for every text and every initial frame: the loop
\* calls next() at most 2 * len(text) + 2 times, it is never stuck before
\* it has returned or raised, and it returns only with an empty stack and
\* the whole text read; a call of next() that leaves the stack and the
\* reader index as they were ends the parse with an error.
C2_ParseTerminates ==
    /\ [](StepsPaidFor)
    /\ [](NeverStuck)
    /\ [](pstate = "done" => Len(stack) = 0 /\ lookup_ch(reader).ch = None)
    /\ [][(/\ pstate = "parsing"
            /\ nsteps' = nsteps + 1
            /\ reader'.index = reader.index
            /\ Len(stack') = Len(stack)
            /\ stack'[Len(stack)].kind = stack[Len(stack)].kind)
              => pstate' \in {"GqlParsingError", "RuntimeError"}]_pvars

\* C2: parse() returned after the loop had popped frames without reading
C2_Witness ==
    /\ pstate = "done"
    /\ Len(stack) = 0
    /\ nsteps > reader.index
    /\ reader.index > 0

----------------------------------------------------------------------------
(* Schema types (gql_schema.py).                                           *)
(* A type expression is a scalar [t |-> "Int"], a reference by name or a   *)
(* List / NonNull around a type expression.  A declared type is an Object, *)
(* an Interface, a Union, an InputObject or a wrapped type expression; it  *)
(* is kept in Schema.types under its name.  Field.args is Optional: <<>>   *)
(* is None and <<d>> is the mapping d.  A Ref is identified by the place   *)
(* it is written at, and its ref_type is set when that place is in the     *)
(* set `resolved`.                                                         *)

\* d[key]
DictGet(d, key) == d[CHOOSE i \in 1..Len(d) : d[i].k = key].v

\* Python values that cross the engine's boundary (PrimitiveType)
PyNone == [py |-> "NoneType"]

PyInt(n) == [py |-> "int", int |-> n]

PyList(items) == [py |-> "list", items |-> items]

PyDict(entries) == [py |-> "dict", entries |-> entries]

\* the scalar classes
Scalars == {"Boolean", "Int", "Float", "String", "ID"}

Ref(type_name) == [t |-> "Ref", type_name |-> type_name]

List(of_type) == [t |-> "List", of_type |-> of_type]

NonNull(of_type) == [t |-> "NonNull", of_type |-> of_type]

InputValue(type, default_value) == [type |-> type, default_value |-> default_value]

Field(type, args) == [type |-> type, args |-> args]

Object(fields, interfaces) ==
    [t |-> "Object", fields |-> fields, interfaces |-> interfaces]

Interface(fields) == [t |-> "Interface", fields |-> fields]

Union(possible_types) == [t |-> "Union", possible_types |-> possible_types]

InputObject(input_fields) == [t |-> "InputObject", input_fields |-> input_fields]

\* isinstance(type, GqlWrappedType)
IsWrapped(type) == type.t \in {"List", "NonNull"}

\* isinstance(type, GqlOutputType), isinstance(type, GqlInputType)
IsOutputType(type) == type.t \in Scalars \cup {"Enum", "Object", "Interface", "Union"}

IsInputType(type) == type.t \in Scalars \cup {"Enum", "InputObject"}

\* while isinstance(type, GqlWrappedType): type = type.of_type
RECURSIVE Innermost(_)
Innermost(type) == IF IsWrapped(type) THEN Innermost(type.of_type) ELSE type

\* the concatenation of a list of lists
RECURSIVE Concat(_)
Concat(lists) ==
    IF Len(lists) = 0 THEN <<>> ELSE Head(lists) \o Concat(Tail(lists))

\* what Schema.__resolve_all_refs and Schema.__verify_in_out_refs visit of
\* the fields of a type, in the order of the loops: each field's type, then
\* the types of its arguments
FieldRefs(name, fields) ==
    Concat([i \in 1..Len(fields) |->
        <<[type |-> fields[i].v.type, site |-> <<name, "fields", fields[i].k>>,
           must |-> "", pos |-> "out", label |-> fields[i].k]>>
        \o
        (IF Len(fields[i].v.args) = 0 THEN <<>>
         ELSE [j \in 1..Len(fields[i].v.args[1]) |->
                 [type |-> fields[i].v.args[1][j].v.type,
                  site |-> <<name, "fields", fields[i].k, "args",
                             fields[i].v.args[1][j].k>>,
                  must |-> "", pos |-> "arg", label |-> fields[i].k]])])

\* the body of the loop of Schema.__resolve_all_refs for one type, as the
\* list of the calls of __resolve_ref it makes and the class each resolved
\* reference must be of
TypeRefs(name, type) ==
    (IF IsWrapped(type)
     THEN <<[type |-> type, site |-> <<name>>, must |-> "", pos |-> "alias",
             label |-> name]>>
     ELSE <<>>)
    \o
    (IF type.t = "Object"
     THEN [i \in 1..Len(type.interfaces) |->
             [type |-> Ref(type.interfaces[i]),
              site |-> <<name, "interfaces", type.interfaces[i]>>,
              must |-> "Interface", pos |-> "interface", label |-> name]]
     ELSE <<>>)
    \o
    (IF type.t \in {"Object", "Interface"} THEN FieldRefs(name, type.fields) ELSE <<>>)
    \o
    (IF type.t = "Union"
     THEN [i \in 1..Len(type.possible_types) |->
             [type |-> Ref(type.possible_types[i]),
              site |-> <<name, "possible_types", type.possible_types[i]>>,
              must |-> "Object", pos |-> "member", label |-> name]]
     ELSE <<>>)
    \o
    (IF type.t = "InputObject"
     THEN [i \in 1..Len(type.input_fields) |->
             [type |-> type.input_fields[i].v.type,
              site |-> <<name, "input_fields", type.input_fields[i].k>>,
              must |-> "", pos |-> "in", label |-> type.input_fields[i].k]]
     ELSE <<>>)

\* Schema.__resolve_ref(type) for the type expression written at site: the
\* reference at its bottom, if there is one, must name a key of Schema.types
resolve_ref(types, type, site, done) ==
    Let(Innermost(type), LAMBDA ref :
        IF ref.t # "Ref"
        THEN [exc |-> "", err |-> "", resolved |-> done]
        ELSE IF ~DictHas(types, ref.type_name)
        THEN [exc |-> "GqlSchemaError",
              err |-> "Reference to unknown type: " \o ref.type_name,
              resolved |-> done]
        ELSE [exc |-> "", err |-> "", resolved |-> done \cup {site}])

\* the loops of Schema.__resolve_all_refs over the references refs of the
\* types, the first error ending them
RECURSIVE resolve_all_refs(_, _, _)
resolve_all_refs(types, refs, done) ==
    IF Len(refs) = 0
    THEN [exc |-> "", err |-> "", resolved |-> done]
    ELSE Let(resolve_ref(types, Head(refs).type, Head(refs).site, done), LAMBDA r :
        IF r.exc # ""
        THEN [r EXCEPT !.err = "Error resolving ref for " \o Head(refs).site[1] \o " type"]
        ELSE IF /\ Head(refs).must # ""
                /\ DictGet(types, Head(refs).type.type_name).t # Head(refs).must
        THEN [exc |-> "GqlSchemaError",
              err |-> "Error resolving ref for " \o Head(refs).site[1] \o " type",
              resolved |-> r.resolved]
        ELSE resolve_all_refs(types, Tail(refs), r.resolved))

\* the outcome of a lookup of a type: the type found, under its name
Found(name, type) == [exc |-> "", err |-> "", name |-> name, type |-> type]

NotFound(exc, err) == [exc |-> exc, err |-> err, name |-> None, type |-> <<>>]

\* how many nested calls the interpreter allows before it raises
\* RecursionError (sys.getrecursionlimit(), scaled down)
RecursionLimit == 3

\* GqlWrappedType.unwrap() of the wrapped type expression written at site,
\* called at the given depth of nested calls of unwrap
RECURSIVE unwrap(_, _, _, _, _)
unwrap(types, done, type, site, depth) ==
    Let(Innermost(type), LAMBDA inner :
        IF inner.t # "Ref"
        THEN Found(inner.t, inner)
        ELSE IF site \notin done
        THEN NotFound("RuntimeError", "unwrap called before ref resolution")
        ELSE IF IsWrapped(DictGet(types, inner.type_name))
        THEN IF depth >= RecursionLimit
             THEN NotFound("RecursionError", "maximum recursion depth exceeded")
             ELSE unwrap(types, done, DictGet(types, inner.type_name), <<inner.type_name>>,
                         depth + 1)
        ELSE Found(inner.type_name, DictGet(types, inner.type_name)))

\* Schema.__resolve_type(type) of the type expression written at site
RECURSIVE Schema_resolve_type(_, _, _, _)
Schema_resolve_type(types, done, type, site) ==
    IF IsWrapped(type)
    THEN unwrap(types, done, type, site, 0)
    ELSE IF type.t = "Ref"
    THEN IF site \notin done
         THEN NotFound("RuntimeError",
                  "This expected to run after refs resolving, but unresolved ref found")
         ELSE Schema_resolve_type(types, done, DictGet(types, type.type_name),
                                  <<type.type_name>>)
    ELSE Found(site[1], type)

\* the loops of Schema.__verify_in_out_refs over the field and input field
\* types refs of the types
RECURSIVE verify_in_out_refs(_, _, _)
verify_in_out_refs(types, done, refs) ==
    IF Len(refs) = 0
    THEN [exc |-> "", err |-> ""]
    ELSE Let(Schema_resolve_type(types, done, Head(refs).type, Head(refs).site),
             LAMBDA f_type :
        IF f_type.exc # ""
        THEN [exc |-> f_type.exc, err |-> f_type.err]
        ELSE IF Head(refs).pos = "out" /\ ~IsOutputType(f_type.type)
        THEN [exc |-> "GqlSchemaError",
              err |-> "Field " \o Head(refs).site[1] \o "." \o Head(refs).label
                      \o " of output type reference input type"]
        ELSE IF Head(refs).pos = "in" /\ ~IsInputType(f_type.type)
        THEN [exc |-> "GqlSchemaError",
              err |-> "Field " \o Head(refs).site[1] \o "." \o Head(refs).label
                      \o " of input type reference output type"]
        ELSE verify_in_out_refs(types, done, Tail(refs)))

\* the references of the types of Schema.types, in the order of the loop
\* `for name, type in self.types.items()`
TypesRefs(types) ==
    Concat([i \in 1..Len(types) |-> TypeRefs(types[i].k, types[i].v)])

\* Schema.__init__ up to the end of self.__resolve_all_refs()
Schema_resolve_all_refs ==
    /\ sstate = "new"
    /\ \E r \in {resolve_all_refs(schema.types, TypesRefs(schema.types), {})} :
          /\ resolved' = r.resolved
          /\ sstate' = IF r.exc # "" THEN r.exc ELSE "resolved"
          /\ serr' = r.err
    /\ UNCHANGED <<schema, pvars, qvars, rvars>>

\* the rest of Schema.__init__: self.__verify_in_out_refs()
Schema_verify_in_out_refs ==
    /\ sstate = "resolved"
    /\ \E r \in {verify_in_out_refs(schema.types, resolved,
                    SelectSeq(TypesRefs(schema.types),
                              LAMBDA ref : ref.pos \in {"out", "in"}))} :
          /\ sstate' = IF r.exc # "" THEN r.exc ELSE "constructed"
          /\ serr' = r.err
    /\ UNCHANGED <<schema, resolved, pvars, qvars, rvars>>

----------------------------------------------------------------------------
(* The schemas that are constructed.                                       *)

\* how many List / NonNull wrappers a type expression of a schema has
MaxWrap == 1

\* what a type expression is written around
NamedTypes == {[t |-> "Int"], Ref("Foo"), Ref("Named"), Ref("In"), Ref("Missing")}

\* the type expressions of at most n wrappers
RECURSIVE TypeExprs(_)
TypeExprs(n) ==
    IF n = 0 THEN NamedTypes
    ELSE TypeExprs(n - 1)
         \cup {List(e) : e \in TypeExprs(n - 1)}
         \cup {NonNull(e) : e \in TypeExprs(n - 1)}

\* Schema(types, query, mutation) with the field type a, the input field
\* type b, the argument type g, the implemented interface i and the union
\* member u in the declared types, and the field type c in the root query
\* object
SchemaOf(a, b, g, c, i, u, mutation) ==
    [types |->
        <<[k |-> "Named", v |-> Interface(<<[k |-> "id", v |-> Field([t |-> "ID"], <<>>)]>>)],
          [k |-> "Foo",
           v |-> Object(<<[k |-> "a",
                           v |-> Field(a, << <<[k |-> "x", v |-> InputValue(g, PyNone)]>> >>)]>>,
                        <<i>>)],
          [k |-> "Pet", v |-> Union(<<u>>)],
          [k |-> "In", v |-> InputObject(<<[k |-> "f", v |-> InputValue(b, PyNone)]>>)],
          [k |-> "Foos", v |-> List(Ref("Foo"))],
          [k |-> "Ins", v |-> List(Ref("In"))]>>,
     query |-> Object(<<[k |-> "q", v |-> Field(c, <<>>)]>>, <<>>),
     mutation |-> mutation]

\* the types a field is declared with where the direction of the type
\* matters: output types and input types, bare, wrapped and under a name
\* that stands for a wrapped type
OutExprs ==
    {[t |-> "Int"], Ref("Foo"), Ref("Foos"), Ref("In"), List(Ref("In")), NonNull(Ref("In")),
     Ref("Ins")}

\* the types an argument or an input field is declared with
InExprs ==
    {[t |-> "Int"], Ref("In"), Ref("Ins"), Ref("Foo"), List(Ref("Foo")), Ref("Foos"),
     Ref("Named"), Ref("Pet")}

\* the schemas with three Interfaces, of which I2 and I3 declare the same
\* field, and an Object that declares the field f and implements is
RedeclaringSchema(f, is) ==
    [types |->
        <<[k |-> "I1", v |-> Interface(<<[k |-> "foo", v |-> Field([t |-> "Int"], <<>>)]>>)],
          [k |-> "I2", v |-> Interface(<<[k |-> "bar", v |-> Field([t |-> "Int"], <<>>)]>>)],
          [k |-> "I3", v |-> Interface(<<[k |-> "bar", v |-> Field([t |-> "Int"], <<>>)]>>)],
          [k |-> "O1",
           v |-> Object(<<[k |-> f, v |-> Field([t |-> "Int"], <<>>)]>>, is)]>>,
     query |-> Object(<<[k |-> "q", v |-> Field(Ref("O1"), <<>>)]>>, <<>>),
     mutation |-> <<>>]

\* the schemas with an argument of the type g and the default d and an input
\* field of the type b and the default e
DefaultingSchema(g, d, b, e) ==
    [types |->
        <<[k |-> "Foo",
           v |-> Object(<<[k |-> "a",
                           v |-> Field([t |-> "Int"],
                                       << <<[k |-> "x", v |-> InputValue(g, d)]>> >>)]>>,
                        <<>>)],
          [k |-> "In", v |-> InputObject(<<[k |-> "f", v |-> InputValue(b, e)]>>)]>>,
     query |-> Object(<<[k |-> "q", v |-> Field(Ref("Foo"), <<>>)]>>, <<>>),
     mutation |-> <<>>]

\* the types a default is declared for
DefaultedTypes == {[t |-> "Int"], [t |-> "String"], NonNull([t |-> "Int"]), List([t |-> "Int"])}

\* the defaults declared; None stands for no default
DefaultValues ==
    {PyNone, PyInt(1), [py |-> "str", str |-> "x"], PyList(<<PyInt(1)>>),
     PyList(<<[py |-> "str", str |-> "x"]>>)}

\* the schemas in which the names L and M stand for the wrapped types
\* List(l) and NonNull(m), with a field of the type a and an input field of
\* the type b
NamingSchema(l, m, a, b) ==
    [types |->
        <<[k |-> "L", v |-> List(l)],
          [k |-> "M", v |-> NonNull(m)],
          [k |-> "Foo", v |-> Object(<<[k |-> "a", v |-> Field(a, <<>>)]>>, <<>>)],
          [k |-> "In", v |-> InputObject(<<[k |-> "f", v |-> InputValue(b, PyNone)]>>)]>>,
     query |-> Object(<<[k |-> "q", v |-> Field([t |-> "Int"], <<>>)]>>, <<>>),
     mutation |-> <<>>]

SchemaInputs ==
    {SchemaOf(a, b, b, c, i, u, m) :
        a \in TypeExprs(MaxWrap),
        b \in {[t |-> "Int"], Ref("In"), Ref("Foo"), Ref("Missing")},
        c \in TypeExprs(MaxWrap),
        i \in {"Named", "Foo"},
        u \in {"Foo", "Named"},
        m \in {<<>>, <<Object(<<[k |-> "m", v |-> Field(Ref("Missing"), <<>>)]>>, <<>>)>>}}
    \cup
    {SchemaOf(a, b, g, [t |-> "Int"], "Named", "Foo", <<>>) :
        a \in OutExprs, b \in InExprs, g \in InExprs}
    \cup
    {RedeclaringSchema(f, is) :
        f \in {"abc", "foo", "bar"},
        is \in {<<>>, <<"I1">>, <<"I1", "I2">>, <<"I2", "I3">>, <<"I1", "I2", "I3">>}}
    \cup
    {DefaultingSchema(g, d, b, e) :
        g \in DefaultedTypes, d \in DefaultValues, b \in DefaultedTypes, e \in DefaultValues}
    \cup
    {NamingSchema(l, m, a, b) :
        l \in {[t |-> "Int"], Ref("L"), Ref("M")},
        m \in {[t |-> "Int"], Ref("L"), Ref("M")},
        a \in {[t |-> "Int"], Ref("L"), Ref("M"), List(Ref("M"))},
        b \in {[t |-> "Int"], Ref("L"), Ref("M"), NonNull(Ref("L"))}}

SchemaInit ==
    /\ schema \in SchemaInputs
    /\ sstate = "new"
    /\ serr = ""
    /\ resolved = {}
    /\ text = ""
    /\ reader = [index |-> 0, lineno |-> 1]
    /\ stack = <<>>
    /\ out = <<>>
    /\ pstate = "idle"
    /\ perr = ""
    /\ initial = <<>>
    /\ parts = <<>>
    /\ nsteps = 0
    /\ QueryUnused
    /\ ParsedOnce

SchemaNext ==
    \/ Schema_resolve_all_refs
    \/ Schema_verify_in_out_refs

SpecSchema == SchemaInit /\ [][SchemaNext]_vars

----------------------------------------------------------------------------
(* Properties of the schema construction.                                  *)

\* every reference written in the schema: those of the declared types and
\* those of the root query and mutation objects
SchemaRefs(sch) ==
    TypesRefs(sch.types)
    \o TypeRefs("@query", sch.query)
    \o (IF Len(sch.mutation) = 0 THEN <<>> ELSE TypeRefs("@mutation", sch.mutation[1]))

\* the references that name no declared type, or whose ref_type is not set
Unresolved(sch, done) ==
    {i \in 1..Len(SchemaRefs(sch)) :
        /\ Innermost(SchemaRefs(sch)[i].type).t = "Ref"
        /\ \/ ~DictHas(sch.types, Innermost(SchemaRefs(sch)[i].type).type_name)
           \/ SchemaRefs(sch)[i].site \notin done}

\* C6: a schema is constructed only if every type name referenced anywhere
\* in it, the root query and mutation objects included and through any
\* List / NonNull wrapping, resolves to a declared type; otherwise the
\* construction raised a Schema error.
C6_EveryReferenceResolved ==
    /\ sstate = "constructed" => Unresolved(schema, resolved) = {}
    /\ (sstate \notin {"new", "resolved"} /\ Unresolved(schema, resolved) # {})
           => sstate = "GqlSchemaError"

----------------------------------------------------------------------------
(* The type registry the executor reads the schema through                 *)
(* (gql_alchemy.types, of which the executor uses the operations below).   *)

\* a resolver object: its type tag and its attributes, each of which raises
\* the exception `raises` when called or returns the value `returns`
Resolver(type, attrs) == [py |-> "resolver", type |-> type, attrs |-> attrs]

\* type_registry.resolve_and_unwrap(type): the declared type or scalar at
\* the bottom of a type expression
RECURSIVE resolve_and_unwrap(_, _)
resolve_and_unwrap(sch, type) ==
    Let(Innermost(type), LAMBDA inner :
        IF inner.t # "Ref"
        THEN Found(inner.t, inner)
        ELSE IF inner.type_name \in Scalars
        THEN Found(inner.type_name, [t |-> inner.type_name])
        ELSE IF ~DictHas(sch.types, inner.type_name)
        THEN NotFound("TypeResolvingError", "Type is not defined: " \o inner.type_name)
        ELSE IF IsWrapped(DictGet(sch.types, inner.type_name))
        THEN resolve_and_unwrap(sch, DictGet(sch.types, inner.type_name))
        ELSE Found(inner.type_name, DictGet(sch.types, inner.type_name)))

\* type_registry.resolve_type(type): a name gives the type declared under
\* it, a wrapper stays a wrapper
registry_resolve_type(sch, type) ==
    IF type.t # "Ref" THEN Found(type.t, type)
    ELSE IF type.type_name \in Scalars
    THEN Found(type.type_name, [t |-> type.type_name])
    ELSE IF ~DictHas(sch.types, type.type_name)
    THEN NotFound("TypeResolvingError", "Type is not defined: " \o type.type_name)
    ELSE Found(type.type_name, DictGet(sch.types, type.type_name))

\* gt.is_selectable(type) is not None, gt.is_spreadable(type) is not None
is_selectable(type) == type.t \in {"Object", "Interface"}

is_spreadable(type) == type.t \in {"Object", "Interface", "Union"}

\* type_registry.objects_by_interface(name): the names of the Objects that
\* implement the Interface
objects_by_interface(sch, name) ==
    {sch.types[i].k : i \in {j \in 1..Len(sch.types) :
        /\ sch.types[j].v.t = "Object"
        /\ name \in Range(sch.types[j].v.interfaces)}}

\* union.of_objects(type_registry): the names of the members of the Union
of_objects(type) == Range(type.possible_types)

\* selectable.fields(type_registry): the fields of the Interfaces an Object
\* implements, then the fields it declares itself
fields(sch, type) ==
    IF type.t # "Object" THEN type.fields
    ELSE Concat([i \in 1..Len(type.interfaces) |->
                    SelectSeq(DictGet(sch.types, type.interfaces[i]).fields,
                              LAMBDA e : ~DictHas(type.fields, e.k))])
         \o type.fields

\* field_definition.args: the declared arguments, none when args is None
def_args(field_definition) ==
    IF Len(field_definition.args) = 0 THEN <<>> ELSE field_definition.args[1]

\* is_assignable had NonNull let None through to the type it wraps
RECURSIVE is_assignable_NullThrough(_, _, _)
is_assignable_NullThrough(sch, type, value) ==
    IF type.t = "NonNull" THEN is_assignable_NullThrough(sch, type.of_type, value)
    ELSE IF type.t = "List"
    THEN IF value.py = "NoneType" THEN "True"
         ELSE IF value.py # "list" THEN "False"
         ELSE IF \A i \in 1..Len(value.items) :
                    is_assignable_NullThrough(sch, type.of_type, value.items[i]) = "True"
         THEN "True" ELSE "False"
    ELSE IF type.t = "Ref"
    THEN IF registry_resolve_type(sch, type).exc # "" THEN "False"
         ELSE is_assignable_NullThrough(sch, registry_resolve_type(sch, type).type, value)
    ELSE IF type.t \in {"Object", "Interface", "Union"} THEN "RuntimeError"
    ELSE IF value.py = "NoneType" THEN "True"
    ELSE IF type.t = "Int" THEN IF value.py = "int" THEN "True" ELSE "False"
    ELSE IF type.t = "Boolean" THEN IF value.py = "bool" THEN "True" ELSE "False"
    ELSE IF type.t = "String" THEN IF value.py = "str" THEN "True" ELSE "False"
    ELSE "False"

\* type.is_assignable(value, type_registry): "True", "False", or the
\* exception it raises.  NonNull forbids None, a List takes None or a list
\* of assignable elements, a scalar takes None or a value of its kind, and a
\* composite type refuses to be asked.
RECURSIVE is_assignable(_, _, _)
is_assignable(sch, type, value) ==
    IF type.t = "NonNull"
    THEN IF value.py = "NoneType" THEN "False"
         ELSE is_assignable(sch, type.of_type, value)
    ELSE IF type.t = "List"
    THEN IF value.py = "NoneType" THEN "True"
         ELSE IF value.py # "list" THEN "False"
         ELSE Let([i \in 1..Len(value.items) |->
                      is_assignable(sch, type.of_type, value.items[i])],
                  LAMBDA items :
                  IF \A i \in 1..Len(items) : items[i] = "True" THEN "True"
                  ELSE items[CHOOSE i \in 1..Len(items) :
                                /\ items[i] # "True"
                                /\ \A j \in 1..(i - 1) : items[j] = "True"])
    ELSE IF type.t = "Ref"
    THEN IF registry_resolve_type(sch, type).exc # "" THEN "False"
         ELSE is_assignable(sch, registry_resolve_type(sch, type).type, value)
    ELSE IF type.t \in {"Object", "Interface", "Union"} THEN "RuntimeError"
    ELSE IF value.py = "NoneType" THEN "True"
    ELSE IF type.t = "Int" THEN IF value.py = "int" THEN "True" ELSE "False"
    ELSE IF type.t = "Float" THEN IF value.py = "float" THEN "True" ELSE "False"
    ELSE IF type.t = "Boolean" THEN IF value.py = "bool" THEN "True" ELSE "False"
    ELSE IF type.t = "String" THEN IF value.py = "str" THEN "True" ELSE "False"
    ELSE IF type.t = "ID" THEN IF value.py \in {"int", "str"} THEN "True" ELSE "False"
    ELSE "False"

\* value.to_primitive() of a Value node of query_model.py: a dict of one
\* key that tells the class of the node
RECURSIVE to_primitive(_)
to_primitive(value) ==
    CASE value.node = "Variable" ->
            PyDict(<<[k |-> "@var", v |-> [py |-> "str", str |-> value.name]]>>)
      [] value.node = "NullValue" -> PyDict(<<[k |-> "@null", v |-> PyNone]>>)
      [] value.node = "IntValue" -> PyDict(<<[k |-> "@int", v |-> PyInt(value.value)]>>)
      [] value.node = "FloatValue" ->
            PyDict(<<[k |-> "@float", v |-> [py |-> "float", float |-> value.value]]>>)
      [] value.node = "StrValue" ->
            PyDict(<<[k |-> "@str", v |-> [py |-> "str", str |-> value.value]]>>)
      [] value.node = "BoolValue" ->
            PyDict(<<[k |-> "@bool", v |-> [py |-> "bool", bool |-> value.value]]>>)
      [] value.node = "EnumValue" ->
            PyDict(<<[k |-> "@enum", v |-> [py |-> "str", str |-> value.value]]>>)
      [] value.node \in {"ListValue", "ConstListValue"} ->
            PyDict(<<[k |-> IF value.node = "ListValue" THEN "@list" ELSE "@const-list",
                      v |-> PyList([i \in 1..Len(value.values) |->
                                      to_primitive(value.values[i])])]>>)
      [] OTHER ->
            PyDict(<<[k |-> IF value.node = "ObjectValue" THEN "@obj" ELSE "@const-obj",
                      v |-> PyDict([i \in 1..Len(value.values) |->
                                [k |-> value.values[i].k,
                                 v |-> to_primitive(value.values[i].v)]])]>>)

\* value.to_py_value(vars_values): the Python value of a Value node
RECURSIVE to_py_value(_, _)
to_py_value(value, vars_values) ==
    CASE value.node = "Variable" ->
            IF DictHas(vars_values, value.name) THEN DictGet(vars_values, value.name)
            ELSE PyNone
      [] value.node = "NullValue" -> PyNone
      [] value.node = "IntValue" -> PyInt(value.value)
      [] value.node = "FloatValue" -> [py |-> "float", float |-> value.value]
      [] value.node = "StrValue" -> [py |-> "str", str |-> value.value]
      [] value.node = "BoolValue" -> [py |-> "bool", bool |-> value.value]
      [] value.node = "EnumValue" -> [py |-> "str", str |-> value.value]
      [] value.node \in {"ListValue", "ConstListValue"} ->
            PyList([i \in 1..Len(value.values) |-> to_py_value(value.values[i], vars_values)])
      [] OTHER ->
            PyDict([i \in 1..Len(value.values) |->
                [k |-> value.values[i].k, v |-> to_py_value(value.values[i].v, vars_values)]])

\* validate_input had it asked is_assignable whatever the wrapper wraps
validate_input_Unguarded(sch, type, value, vars_values, vars_defs) ==
    IF value.node = "Variable" /\ ~DictHas(vars_defs, value.name) THEN "False"
    ELSE is_assignable(sch, type, to_py_value(value, vars_values))

\* type.validate_input(value, vars_values, vars_defs, type_registry):
\* "True", "False", or the exception it raises.  A wrapper of a type that
\* is not an input type refuses to validate; a Variable must be declared
\* and its value, None when it has none, must be assignable; a literal must
\* be assignable.
validate_input(sch, type, value, vars_values, vars_defs) ==
    IF /\ IsWrapped(type)
       /\ resolve_and_unwrap(sch, type).exc = ""
       /\ ~IsInputType(resolve_and_unwrap(sch, type).type)
    THEN "RuntimeError"
    ELSE IF value.node = "Variable" /\ ~DictHas(vars_defs, value.name) THEN "False"
    ELSE is_assignable(sch, type, to_py_value(value, vars_values))

----------------------------------------------------------------------------
(* The executor (executor.py).  `self` is the _OperationRunner: the schema *)
(* behind its type registry, vars_values and vars_defs.  Every operation   *)
(* gives [exc, err, cause, value, calls]: the class, message and cause of  *)
(* the exception it raised (exc = "" when it returned), the value it       *)
(* returned, and the resolver attributes it asked for, in order.           *)

Returned(value, calls) ==
    [exc |-> "", err |-> "", cause |-> "", value |-> value, calls |-> calls]

Raised(exc, err, cause, calls) ==
    [exc |-> exc, err |-> err, cause |-> cause, value |-> PyNone, calls |-> calls]

\* r with the calls made before it put in front of its own
After(calls, r) == [r EXCEPT !.calls = calls \o r.calls]

\* getattr(resolver, name).__call__(args): AttributeError when the resolver
\* has no such attribute, else whatever the attribute does when called
getattr_call(resolver, name, args) ==
    IF ~DictHas(resolver.attrs, name)
    THEN Raised("AttributeError", name, "",
                <<[type |-> resolver.type, name |-> name, args |-> args,
                   raised |-> "AttributeError"]>>)
    ELSE Let(DictGet(resolver.attrs, name), LAMBDA attr :
        IF attr.raises # ""
        THEN Raised(attr.raises, name, "",
                    <<[type |-> resolver.type, name |-> name, args |-> args,
                       raised |-> attr.raises]>>)
        ELSE Returned(attr.returns,
                      <<[type |-> resolver.type, name |-> name, args |-> args,
                         raised |-> ""]>>))

\* the loop of __validate_args had it given null to every omitted argument
RECURSIVE validate_args_loop_DefaultsDropped(_, _, _, _)
validate_args_loop_DefaultsDropped(self, sel_args, args, arguments) ==
    IF Len(args) = 0 THEN Returned(arguments, <<>>)
    ELSE IF \E i \in 1..Len(sel_args) : sel_args[i].name = Head(args).k
    THEN Let(sel_args[CHOOSE i \in 1..Len(sel_args) : sel_args[i].name = Head(args).k].value,
             LAMBDA arg_value :
        IF validate_input(self.schema, Head(args).v.type, arg_value,
                          self.vars_values, self.vars_defs) # "True"
        THEN Raised("GqlExecutionQueryError", "", "", <<>>)
        ELSE validate_args_loop_DefaultsDropped(self, sel_args, Tail(args),
                 DictSet(arguments, Head(args).k, to_py_value(arg_value, self.vars_values))))
    ELSE IF validate_input(self.schema, Head(args).v.type, NullValue,
                           self.vars_values, self.vars_defs) # "True"
    THEN Raised("GqlExecutionQueryError", "", "", <<>>)
    ELSE validate_args_loop_DefaultsDropped(self, sel_args, Tail(args),
             DictSet(arguments, Head(args).k, PyNone))

\* the loop of __validate_args had it taken a supplied argument as it is
RECURSIVE validate_args_loop_Unvalidated(_, _, _, _)
validate_args_loop_Unvalidated(self, sel_args, args, arguments) ==
    IF Len(args) = 0 THEN Returned(arguments, <<>>)
    ELSE IF \E i \in 1..Len(sel_args) : sel_args[i].name = Head(args).k
    THEN validate_args_loop_Unvalidated(self, sel_args, Tail(args),
             DictSet(arguments, Head(args).k,
                 to_py_value(sel_args[CHOOSE i \in 1..Len(sel_args) :
                                         sel_args[i].name = Head(args).k].value,
                             self.vars_values)))
    ELSE IF Head(args).v.default_value = PyNone
    THEN validate_args_loop_Unvalidated(self, sel_args, Tail(args),
             DictSet(arguments, Head(args).k, PyNone))
    ELSE validate_args_loop_Unvalidated(self, sel_args, Tail(args),
             DictSet(arguments, Head(args).k, Head(args).v.default_value))

\* the loop of __validate_args over the declared arguments
RECURSIVE validate_args_loop(_, _, _, _)
validate_args_loop(self, sel_args, args, arguments) ==
    IF Len(args) = 0 THEN Returned(arguments, <<>>)
    ELSE IF \E i \in 1..Len(sel_args) : sel_args[i].name = Head(args).k
    THEN Let(sel_args[CHOOSE i \in 1..Len(sel_args) : sel_args[i].name = Head(args).k].value,
             LAMBDA arg_value :
        IF validate_input(self.schema, Head(args).v.type, arg_value,
                          self.vars_values, self.vars_defs) = "RuntimeError"
        THEN Raised("RuntimeError", "Validating input for wrapper of non input type", "", <<>>)
        ELSE IF validate_input(self.schema, Head(args).v.type, arg_value,
                               self.vars_values, self.vars_defs) = "False"
        THEN Raised("GqlExecutionQueryError", "", "", <<>>)
        ELSE validate_args_loop(self, sel_args, Tail(args),
                 DictSet(arguments, Head(args).k, to_py_value(arg_value, self.vars_values))))
    ELSE IF Head(args).v.default_value = PyNone
    THEN IF validate_input(self.schema, Head(args).v.type, NullValue,
                           self.vars_values, self.vars_defs) = "RuntimeError"
         THEN Raised("RuntimeError", "Validating input for wrapper of non input type", "",
                     <<>>)
         ELSE IF validate_input(self.schema, Head(args).v.type, NullValue,
                                self.vars_values, self.vars_defs) = "False"
         THEN Raised("GqlExecutionQueryError", "", "", <<>>)
         ELSE validate_args_loop(self, sel_args, Tail(args),
                  DictSet(arguments, Head(args).k, PyNone))
    ELSE validate_args_loop(self, sel_args, Tail(args),
             DictSet(arguments, Head(args).k, Head(args).v.default_value))

\* _OperationRunner.__validate_args(sel_args, def_args)
validate_args(self, sel_args, args) ==
    IF Cardinality({sel_args[i].name : i \in 1..Len(sel_args)}) < Len(sel_args)
    THEN Raised("GqlExecutionQueryError", "Selection arguments are not unique", "", <<>>)
    ELSE IF \E i \in 1..Len(sel_args) : ~DictHas(args, sel_args[i].name)
    THEN Raised("GqlExecutionQueryError", "Undefined argument in selection", "", <<>>)
    ELSE validate_args_loop(self, sel_args, args, <<>>)

\* _OperationRunner.__resolver_compatible(field_type, resolvers): "True",
\* "False", or the exception it raises.  getattr(resolvers, "type", None) is
\* the tag of a resolver object and None for any other value.
RECURSIVE resolver_compatible(_, _, _)
resolver_compatible(self, field_type, resolvers) ==
    IF field_type.t = "NonNull"
    THEN IF resolvers.py = "NoneType" THEN "False"
         ELSE resolver_compatible(self, field_type.of_type, resolvers)
    ELSE IF field_type.t = "List"
    THEN IF resolvers.py # "list" THEN "False"
         ELSE Let({i \in 1..Len(resolvers.items) :
                      resolver_compatible(self, field_type.of_type, resolvers.items[i]) # "True"},
                  LAMBDA bad :
             IF bad = {} THEN "True"
             ELSE resolver_compatible(self, field_type.of_type,
                      resolvers.items[CHOOSE i \in bad : \A j \in bad : i <= j]))
    ELSE IF field_type.t # "Ref"
    THEN "RuntimeError"
    ELSE Let(registry_resolve_type(self.schema, field_type), LAMBDA found :
        IF found.exc # "" THEN found.exc
        ELSE IF IsWrapped(found.type) THEN resolver_compatible(self, found.type, resolvers)
        ELSE IF found.type.t = "Interface"
        THEN IF /\ resolvers.py = "resolver"
                /\ resolvers.type \in objects_by_interface(self.schema, found.name)
             THEN "True" ELSE "False"
        ELSE IF found.type.t = "Union"
        THEN IF resolvers.py = "resolver" /\ resolvers.type \in of_objects(found.type)
             THEN "True" ELSE "False"
        ELSE IF found.type.t = "Object"
        THEN IF resolvers.py = "resolver" /\ resolvers.type = found.name
             THEN "True" ELSE "False"
        ELSE "RuntimeError")

\* __select_plain_field without its try / except: the exception of the
\* resolver goes to the caller as it is
select_plain_field_NoExcept(self, field_type, name, args, resolver) ==
    Let(getattr_call(resolver, name, args), LAMBDA result :
        IF result.exc # ""
        THEN result
        ELSE IF is_assignable(self.schema, field_type, result.value) = "RuntimeError"
        THEN Raised("RuntimeError", "Value must never be assigned to any composite type", "",
                    result.calls)
        ELSE IF is_assignable(self.schema, field_type, result.value) = "False"
        THEN Raised("GqlExecutionResolverError", "Resolver returns wrong type", "",
                    result.calls)
        ELSE result)

\* _OperationRunner.__select_plain_field(field_type, name, args, resolver)
select_plain_field(self, field_type, name, args, resolver) ==
    Let(getattr_call(resolver, name, args), LAMBDA result :
        IF result.exc # ""
        THEN Raised("GqlExecutionResolverError", "Resolver internal error",
                    result.exc, result.calls)
        ELSE IF is_assignable(self.schema, field_type, result.value) = "RuntimeError"
        THEN Raised("RuntimeError", "Value must never be assigned to any composite type", "",
                    result.calls)
        ELSE IF is_assignable(self.schema, field_type, result.value) = "False"
        THEN Raised("GqlExecutionResolverError", "Resolver returns wrong type", "",
                    result.calls)
        ELSE result)

\* the key had __select used the name of the field whether or not the
\* selection has an alias
response_key_NameOnly(sel) == sel.name

\* the key a field selection puts its result under
response_key(sel) == IF sel.alias # None THEN sel.alias ELSE sel.name

RECURSIVE select_loop(_, _, _, _, _, _)
RECURSIVE select_field(_, _, _, _)
RECURSIVE select_spreadable_field(_, _, _, _, _, _)
RECURSIVE resolve_subresolvers(_, _, _, _)
RECURSIVE resolve_subresolvers_loop(_, _, _, _, _, _)

\* _OperationRunner.__select(selections, spreadable, resolver)
select(self, selections, spreadable, resolver) ==
    select_loop(self, selections, spreadable, resolver, <<>>, <<>>)

\* the loop of __select with the result and the calls made so far
select_loop(self, selections, spreadable, resolver, result, calls) ==
    IF Len(selections) = 0 THEN Returned(PyDict(result), calls)
    ELSE IF Head(selections).node # "FieldSelection"
    THEN Raised("NotImplementedError", "", "", calls)
    ELSE IF ~is_selectable(spreadable)
    THEN Raised("GqlExecutionQueryError",
                "Can not select field from union, use fragment or inline spread", "", calls)
    ELSE IF ~DictHas(fields(self.schema, spreadable), Head(selections).name)
    THEN Raised("GqlExecutionQueryError", "Selecting not defined field", "", calls)
    ELSE Let(select_field(self, Head(selections),
                 DictGet(fields(self.schema, spreadable), Head(selections).name), resolver),
             LAMBDA r :
        IF r.exc # "" THEN After(calls, r)
        ELSE select_loop(self, Tail(selections), spreadable, resolver,
                 DictSet(result, response_key(Head(selections)), r.value),
                 calls \o r.calls))

\* _OperationRunner.__select_field(field_selection, field_definition, resolver)
select_field(self, field_selection, field_definition, resolver) ==
    Let(validate_args(self, field_selection.arguments, def_args(field_definition)),
        LAMBDA args :
        IF args.exc # "" THEN args
        ELSE Let(resolve_and_unwrap(self.schema, field_definition.type),
                 LAMBDA field_unwrapped_type :
            IF field_unwrapped_type.exc # ""
            THEN Raised(field_unwrapped_type.exc, field_unwrapped_type.err, "", <<>>)
            ELSE IF is_spreadable(field_unwrapped_type.type)
            THEN IF Len(field_selection.selections) = 0
                 THEN Raised("GqlExecutionQueryError", "", "", <<>>)
                 ELSE select_spreadable_field(self, field_definition.type,
                          field_selection.name, args.value,
                          field_selection.selections, resolver)
            ELSE select_plain_field(self, field_definition.type, field_selection.name,
                                    args.value, resolver)))

\* __select_spreadable_field without its call of __resolver_compatible
select_spreadable_field_Unchecked(self, field_type, name, args, selections, resolver) ==
    Let(getattr_call(resolver, name, args), LAMBDA subresolvers :
        IF subresolvers.exc # ""
        THEN Raised("GqlExecutionResolverError", "Resolver internal error",
                    subresolvers.exc, subresolvers.calls)
        ELSE After(subresolvers.calls,
                 resolve_subresolvers(self, selections,
                     resolve_and_unwrap(self.schema, field_type).type,
                     subresolvers.value)))

\* _OperationRunner.__select_spreadable_field(field_type, name, args,
\* selections, resolver)
select_spreadable_field(self, field_type, name, args, selections, resolver) ==
    Let(getattr_call(resolver, name, args), LAMBDA subresolvers :
        IF subresolvers.exc # ""
        THEN Raised("GqlExecutionResolverError", "Resolver internal error",
                    subresolvers.exc, subresolvers.calls)
        ELSE Let(resolver_compatible(self, field_type, subresolvers.value), LAMBDA ok :
            IF ok = "False"
            THEN Raised("GqlExecutionResolverError",
                        "Resolver returns non compatible sub-resolver", "",
                        subresolvers.calls)
            ELSE IF ok # "True"
            THEN Raised(ok, "", "", subresolvers.calls)
            ELSE After(subresolvers.calls,
                     resolve_subresolvers(self, selections,
                         resolve_and_unwrap(self.schema, field_type).type,
                         subresolvers.value))))

\* _OperationRunner.__resolve_subresolvers(selections, field_type, subresolvers)
resolve_subresolvers(self, selections, field_type, subresolvers) ==
    IF subresolvers.py = "NoneType" THEN Returned(PyNone, <<>>)
    ELSE IF subresolvers.py = "list"
    THEN resolve_subresolvers_loop(self, selections, field_type, subresolvers.items,
                                   <<>>, <<>>)
    ELSE select(self, selections, field_type, subresolvers)

\* the loop of __resolve_subresolvers over the elements of a list
resolve_subresolvers_loop(self, selections, field_type, items, result, calls) ==
    IF Len(items) = 0 THEN Returned(PyList(result), calls)
    ELSE Let(resolve_subresolvers(self, selections, field_type, Head(items)), LAMBDA r :
        IF r.exc # "" THEN After(calls, r)
        ELSE resolve_subresolvers_loop(self, selections, field_type, Tail(items),
                 Append(result, r.value), calls \o r.calls))

\* _OperationRunner.__to_schema_type(query_type)
RECURSIVE to_schema_type(_)
to_schema_type(query_type) ==
    IF query_type.node = "NamedType"
    THEN IF query_type.null THEN Ref(query_type.name) ELSE NonNull(Ref(query_type.name))
    ELSE IF query_type.null THEN List(to_schema_type(query_type.el_type))
    ELSE NonNull(List(to_schema_type(query_type.el_type)))

\* the loop of run_operation over the variables of the operation: the
\* runner with vars_values and vars_defs filled in, or the exception raised
RECURSIVE run_operation_variables(_, _)
run_operation_variables(self, variables) ==
    IF Len(variables) = 0 THEN [exc |-> "", err |-> "", self |-> self]
    ELSE Let(registry_resolve_type(self.schema, to_schema_type(Head(variables).type)),
             LAMBDA var_type :
        IF var_type.exc # ""
        THEN [exc |-> "GqlExecutionQueryError", err |-> var_type.err, self |-> self]
        ELSE Let([self EXCEPT !.vars_defs = DictSet(@, Head(variables).name, var_type.type)],
                 LAMBDA self1 :
            IF /\ Len(Head(variables).default) = 1
               /\ ~IsWrapped(var_type.type)
               /\ ~IsInputType(var_type.type)
            THEN [exc |-> "RuntimeError", err |-> "Input type expected here", self |-> self1]
            ELSE IF /\ Len(Head(variables).default) = 1
                    /\ validate_input(self1.schema, var_type.type, Head(variables).default[1],
                                      self1.vars_values, self1.vars_defs) = "RuntimeError"
            THEN [exc |-> "RuntimeError",
                  err |-> "Validating input for wrapper of non input type", self |-> self1]
            ELSE IF /\ Len(Head(variables).default) = 1
                    /\ validate_input(self1.schema, var_type.type, Head(variables).default[1],
                                      self1.vars_values, self1.vars_defs) = "False"
            THEN [exc |-> "GqlExecutionQueryError", err |-> "default is not assignable to type",
                  self |-> self1]
            ELSE Let(IF DictHas(self1.vars_values, Head(variables).name) THEN self1
                     ELSE [self1 EXCEPT !.vars_values =
                              DictSet(@, Head(variables).name,
                                  IF Len(Head(variables).default) = 1
                                  THEN to_primitive(Head(variables).default[1])
                                  ELSE PyNone)],
                     LAMBDA self2 :
                IF is_assignable(self2.schema, var_type.type,
                                 DictGet(self2.vars_values, Head(variables).name))
                      = "RuntimeError"
                THEN [exc |-> "RuntimeError",
                      err |-> "Value must never be assigned to any composite type",
                      self |-> self2]
                ELSE IF is_assignable(self2.schema, var_type.type,
                                      DictGet(self2.vars_values, Head(variables).name))
                           = "False"
                THEN [exc |-> "GqlExecutionQueryError", err |-> "Wrong value for variable type",
                      self |-> self2]
                ELSE run_operation_variables(self2, Tail(variables)))))

\* _OperationRunner.run_operation(root_object, operation, root_resolver)
run_operation(self, root_object, operation, root_resolver) ==
    Let(run_operation_variables(self, operation.variables), LAMBDA r :
        IF r.exc # "" THEN Raised(r.exc, r.err, "", <<>>)
        ELSE select(r.self, operation.selections, root_object, root_resolver))

\* Executor.query had it run the first operation whatever name is asked for
PickOperation_First(operations, operation_name) ==
    IF Len(operations) = 0 THEN <<>> ELSE SubSeq(operations, 1, 1)

\* the operation Executor.query picks: the first one when no name is given,
\* else the last one of that name; <<>> when there is none
PickOperation(operations, operation_name) ==
    IF operation_name = None THEN SubSeq(operations, 1, 1)
    ELSE Let(SelectSeq(operations, LAMBDA op : op.name = operation_name), LAMBDA named :
        IF Len(named) = 0 THEN <<>> ELSE <<named[Len(named)]>>)

\* _OperationRunner.__init__ had it kept the mapping it is given instead of
\* a copy of it
OperationRunner_init_Kept(type_registry, vars_values) ==
    [schema |-> type_registry, vars_values |-> vars_values, vars_defs |-> <<>>,
     owner |-> "caller"]

\* _OperationRunner.__init__(type_registry, vars_values): vars_values is
\* dict(vars_values), a new dict of the runner with the entries of the
\* mapping of the caller; owner tells whose dict the runner writes to
OperationRunner_init(type_registry, vars_values) ==
    [schema |-> type_registry, vars_values |-> vars_values, vars_defs |-> <<>>,
     owner |-> "runner"]

\* Executor.query up to the call of run_operation, once parse_document has
\* returned the document or raised: the operation to run, or the exception
\* raised; had parse_document raised, query raises the same
query_operation(sch, operation_name) ==
    IF pstate # "done" THEN [exc |-> pstate, err |-> perr, operation |-> <<>>]
    ELSE IF operation_name = None /\ Len(out[1].operations) > 1
    THEN [exc |-> "GqlExecutionQueryError",
          err |-> "Operation name is needed for queries with multiple operations defined",
          operation |-> <<>>]
    ELSE IF operation_name = None /\ Len(out[1].operations) = 0
    THEN [exc |-> "IndexError", err |-> "list index out of range", operation |-> <<>>]
    ELSE Let(PickOperation(out[1].operations, operation_name), LAMBDA operation :
        IF Len(operation) = 0
        THEN [exc |-> "GqlExecutionQueryError",
              err |-> "Operation " \o operation_name \o " is not found",
              operation |-> <<>>]
        ELSE IF operation[1].node # "Query" /\ Len(sch.mutation) = 0
        THEN [exc |-> "GqlExecutionQueryError", err |-> "Server does not support mutations",
              operation |-> <<>>]
        ELSE [exc |-> "", err |-> "", operation |-> operation])

\* Executor.query(query, variables, operation_name): what it returns or
\* raises
query(sch, resolver, variables, operation_name) ==
    Let(query_operation(sch, operation_name), LAMBDA picked :
        IF picked.exc # "" THEN Raised(picked.exc, picked.err, "", <<>>)
        ELSE run_operation(
                 OperationRunner_init(sch, variables),
                 IF picked.operation[1].node = "Query" THEN sch.query ELSE sch.mutation[1],
                 picked.operation[1], resolver))

\* the _OperationRunner of the call as run_operation leaves it: <<>> when
\* query raises before it makes one
query_runner(sch, variables, operation_name) ==
    Let(query_operation(sch, operation_name), LAMBDA picked :
        IF picked.exc # "" THEN <<>>
        ELSE <<run_operation_variables(OperationRunner_init(sch, variables),
                                       picked.operation[1].variables).self>>)

\* Executor.query: the rest of it after parse_document(query).  The mapping
\* of the caller holds what the runner wrote when the runner writes to it.
Executor_query ==
    /\ pstate \in {"done", "GqlParsingError", "RuntimeError"}
    /\ Len(qresult) = 0
    /\ qresult' = <<query(schema, call.resolver, call.variables, call.operation_name)>>
    /\ runner' = query_runner(schema, call.variables, call.operation_name)
    /\ call' = [call EXCEPT !.variables =
                    IF Len(runner') = 1 /\ runner'[1].owner = "caller"
                    THEN runner'[1].vars_values ELSE @]
    /\ UNCHANGED <<pvars, svars, vresult, rvars>>

----------------------------------------------------------------------------
(* The validator (validator.py).  Every operation gives [exc, err, names]: *)
(* the class and message of the exception raised (exc = "" when it         *)
(* returned) and the argument names the message lists.                     *)

Valid == [exc |-> "", err |-> "", names |-> {}]

Invalid(exc, err, names) == [exc |-> exc, err |-> err, names |-> names]

\* the loop `for sel_arg in selection_args: required_args.remove(...)`:
\* the first argument that is not in the set raises KeyError
RECURSIVE remove_all(_, _)
remove_all(required_args, selection_args) ==
    IF Len(selection_args) = 0 THEN Invalid("", "", required_args)
    ELSE IF Head(selection_args).name \notin required_args
    THEN Invalid("KeyError", Head(selection_args).name, required_args)
    ELSE remove_all(required_args \ {Head(selection_args).name}, Tail(selection_args))

\* validate_selection_args(selection_args, args_definition)
validate_selection_args(selection_args, args_definition) ==
    IF Len(args_definition) = 0
    THEN IF Len(selection_args) > 0
         THEN Invalid("GqlValidationError", "Field does not support args", {})
         ELSE Valid
    ELSE Let(remove_all({args_definition[1][i].k : i \in
                            {j \in 1..Len(args_definition[1]) :
                                args_definition[1][j].v.default_value = PyNone}},
                        selection_args),
             LAMBDA required_args :
        IF required_args.exc # "" THEN Invalid(required_args.exc, required_args.err, {})
        ELSE IF required_args.names # {}
        THEN Invalid("GqlValidationError", "Selection miss required arguments: ",
                     required_args.names)
        ELSE IF \E i \in 1..Len(selection_args) :
                    ~DictHas(args_definition[1], selection_args[i].name)
        THEN Invalid("GqlValidationError", "Undefined argument: ",
                     {selection_args[CHOOSE i \in 1..Len(selection_args) :
                          /\ ~DictHas(args_definition[1], selection_args[i].name)
                          /\ \A j \in 1..(i - 1) :
                                DictHas(args_definition[1], selection_args[j].name)].name})
        ELSE Valid)

\* from_type.field_type(name): the type of the field, a reference followed
\* to the type declared under its name
field_type(sch, from_type, name) ==
    Let(DictGet(from_type.fields, name).type, LAMBDA type :
        IF type.t = "Ref" /\ DictHas(sch.types, type.type_name)
        THEN DictGet(sch.types, type.type_name)
        ELSE type)

RECURSIVE validate_selections(_, _, _, _, _)

\* validate_field_selection(field_selection, from_type); site is where the
\* fields of from_type are written in the schema
validate_field_selection(sch, done, field_selection, from_type, site) ==
    IF ~DictHas(from_type.fields, field_selection.name)
    THEN Invalid("GqlValidationError",
                 "Selecting undefined field " \o field_selection.name \o " from "
                     \o site \o " type", {})
    ELSE Let(validate_selection_args(field_selection.arguments,
                 DictGet(from_type.fields, field_selection.name).args), LAMBDA a :
        IF a.exc # "" THEN a
        ELSE Let(IF IsWrapped(field_type(sch, from_type, field_selection.name))
                 THEN unwrap(sch.types, done, field_type(sch, from_type, field_selection.name),
                             IF DictGet(from_type.fields, field_selection.name).type.t = "Ref"
                             THEN <<DictGet(from_type.fields, field_selection.name).type.type_name>>
                             ELSE <<site, "fields", field_selection.name>>,
                             0)
                 ELSE Found(IF DictGet(from_type.fields, field_selection.name).type.t = "Ref"
                            THEN DictGet(from_type.fields, field_selection.name).type.type_name
                            ELSE None,
                            field_type(sch, from_type, field_selection.name)),
                 LAMBDA unwrapped_field_type :
            IF unwrapped_field_type.exc # ""
            THEN Invalid(unwrapped_field_type.exc, unwrapped_field_type.err, {})
            ELSE IF is_spreadable(unwrapped_field_type.type)
            THEN IF Len(field_selection.selections) = 0
                 THEN Invalid("GqlValidationError",
                          "Spreadable type (interface, class, union) must be selected with fields",
                          {})
                 ELSE validate_selections(sch, done, field_selection.selections,
                          unwrapped_field_type.type, unwrapped_field_type.name)
            ELSE IF Len(field_selection.selections) > 0
            THEN Invalid("GqlValidationError", "Selecting fields for type without fields", {})
            ELSE Valid))

\* the loops `for sel in ...selections` of validate_operation and of
\* validate_field_selection: fragment spreads and inline fragments are
\* passed over
validate_selections(sch, done, selections, from_type, site) ==
    IF Len(selections) = 0 THEN Valid
    ELSE IF Head(selections).node # "FieldSelection"
    THEN validate_selections(sch, done, Tail(selections), from_type, site)
    ELSE IF ~is_selectable(from_type)
    THEN Invalid("GqlValidationError",
             "Direct field selection possible only on selectable type (interface, class), but not on union. On union use inline spread with type or fragment selection.",
             {})
    ELSE Let(validate_field_selection(sch, done, Head(selections), from_type, site),
             LAMBDA r :
        IF r.exc # "" THEN r
        ELSE validate_selections(sch, done, Tail(selections), from_type, site))

\* validate_operation(op, query, schema, variables)
validate_operation(sch, done, op) ==
    IF op.node = "Mutation" /\ Len(sch.mutation) = 0
    THEN Invalid("GqlValidationError", "No mutation operations defined", {})
    ELSE IF op.node = "Mutation"
    THEN validate_selections(sch, done, op.selections, sch.mutation[1], "@mutation")
    ELSE validate_selections(sch, done, op.selections, sch.query, "@query")

\* the loop of validate over the operations
RECURSIVE validate_operations(_, _, _)
validate_operations(sch, done, operations) ==
    IF Len(operations) = 0 THEN Valid
    ELSE Let(validate_operation(sch, done, Head(operations)), LAMBDA r :
        IF r.exc # "" THEN r
        ELSE validate_operations(sch, done, Tail(operations)))

\* validate(query, schema, variables, op_to_run)
validate(document, sch, done, variables, op_to_run) ==
    IF op_to_run = None /\ Len(document.operations) > 1
    THEN Invalid("GqlValidationError",
             "You must specify query to run for queryes with many operations", {})
    ELSE IF /\ op_to_run # None
            /\ op_to_run \notin {document.operations[i].name : i \in 1..Len(document.operations)}
    THEN Invalid("GqlValidationError",
             "Operation requested to run is not defined in the query", {})
    ELSE validate_operations(sch, done, document.operations)

\* validate(parse_document(text), schema, variables, op_to_run) once the
\* document is parsed
validate_call ==
    /\ pstate = "done"
    /\ Len(vresult) = 0
    /\ vresult' = <<validate(out[1], schema, resolved, call.variables, call.operation_name)>>
    /\ UNCHANGED <<pvars, svars, call, qresult, runner, rvars>>

----------------------------------------------------------------------------
(* The calls of validate() and Executor.query().                           *)

\* how many selections the selection set of a generated document has
MaxSelections == 2

IntType == [t |-> "Int"]

\* the schema the engine is called with
QuerySchema ==
    [types |->
        <<[k |-> "Named", v |-> Interface(<<[k |-> "bar", v |-> Field(IntType, <<>>)]>>)],
          [k |-> "Foo",
           v |-> Object(<<[k |-> "bar", v |-> Field(IntType, <<>>)],
                          [k |-> "baz",
                           v |-> Field(IntType, << <<[k |-> "x", v |-> InputValue(IntType, PyNone)],
                                                 [k |-> "y", v |-> InputValue(IntType, PyInt(1))]>> >>)],
                          [k |-> "kin", v |-> Field(NonNull(List(Ref("Cat"))), <<>>)],
                          [k |-> "pal", v |-> Field(List(Ref("Pet")), <<>>)]>>,
                        <<"Named">>)],
          [k |-> "Cat", v |-> Object(<<[k |-> "bar", v |-> Field(IntType, <<>>)]>>, <<"Named">>)],
          [k |-> "Pet", v |-> Union(<<"Foo", "Cat">>)],
          [k |-> "Dog", v |-> Object(<<[k |-> "bar", v |-> Field(IntType, <<>>)]>>, <<>>)]>>,
     query |->
        Object(<<[k |-> "n", v |-> Field(IntType, <<>>)],
                 [k |-> "foo", v |-> Field(Ref("Foo"), <<>>)],
                 [k |-> "kids", v |-> Field(NonNull(List(Ref("Foo"))), <<>>)],
                 [k |-> "pets", v |-> Field(List(Ref("Named")), <<>>)],
                 [k |-> "pet", v |-> Field(Ref("Pet"), <<>>)],
                 [k |-> "s", v |-> Field(IntType, << <<[k |-> "a", v |-> InputValue(IntType, PyNone)]>> >>)],
                 [k |-> "d", v |-> Field(IntType, << <<[k |-> "y", v |-> InputValue(IntType, PyInt(1))]>> >>)],
                 [k |-> "r",
                  v |-> Field(IntType, << <<[k |-> "a", v |-> InputValue(NonNull(IntType), PyNone)]>> >>)]>>,
               <<>>),
     mutation |-> <<Object(<<[k |-> "n", v |-> Field(IntType, <<>>)]>>, <<>>)>>]

\* an attribute of a resolver that returns value, or raises when its name
\* is the one at fault
Attr(name, value, fault) ==
    [k |-> name,
     v |-> [raises |-> IF fault = name \o " raises" THEN "ValueError" ELSE "",
            returns |-> value]]

FooResolver(n, fault) ==
    Resolver("Foo", <<Attr("bar", PyInt(n), fault), Attr("baz", PyInt(n + 10), fault),
                      Attr("kin", PyList(<<Resolver("Cat", <<Attr("bar", PyInt(7), fault)>>)>>),
                           fault),
                      Attr("pal", PyList(<<Resolver("Cat", <<Attr("bar", PyInt(7), fault)>>)>>),
                           fault)>>)

CatResolver(fault) == Resolver("Cat", <<Attr("bar", PyInt(7), fault)>>)

\* what may be wrong with the resolvers
Faults == {"", "n raises", "foo raises", "bar raises", "n missing", "foo wrong", "n null"}

DogResolver == Resolver("Dog", <<Attr("bar", PyInt(6), "")>>)

\* the resolvers that answer a spreadable field with a value its declared
\* type does not allow
Incompatible ==
    {"foo wrong", "foo null", "foo int", "foo list", "kids null", "kids cat", "kids foo",
     "kids int", "pets dog", "pets null", "pet dog", "pet int", "pet null", "pets none"}

\* what the attribute of the root resolver returns under the fault
Answer(name, value, fault) ==
    CASE fault = "foo null" /\ name = "foo" -> PyNone
      [] fault = "n null" /\ name = "n" -> PyNone
      [] fault = "pet null" /\ name = "pet" -> PyNone
      [] fault = "pets none" /\ name = "pets" -> PyNone
      [] fault = "foo int" /\ name = "foo" -> PyInt(0)
      [] fault = "foo list" /\ name = "foo" -> PyList(<<FooResolver(2, "")>>)
      [] fault = "kids null" /\ name = "kids" -> PyNone
      [] fault = "kids cat" /\ name = "kids" -> PyList(<<FooResolver(3, ""), CatResolver("")>>)
      [] fault = "kids foo" /\ name = "kids" -> FooResolver(3, "")
      [] fault = "kids int" /\ name = "kids" -> PyList(<<PyInt(0)>>)
      [] fault = "pets dog" /\ name = "pets" -> PyList(<<CatResolver(""), DogResolver>>)
      [] fault = "pets null" /\ name = "pets" -> PyList(<<PyNone>>)
      [] fault = "pet dog" /\ name = "pet" -> DogResolver
      [] fault = "pet int" /\ name = "pet" -> PyInt(0)
      [] OTHER -> value

\* the root resolver
QueryResolver(fault) ==
    Resolver("@query",
        (IF fault = "n missing" THEN <<>> ELSE <<Attr("n", Answer("n", PyInt(1), fault), fault)>>)
        \o
        <<Attr("foo", Answer("foo", IF fault = "foo wrong" THEN CatResolver(fault)
                                    ELSE FooResolver(2, fault), fault),
               fault),
          Attr("kids", Answer("kids", PyList(<<FooResolver(3, fault), FooResolver(4, fault)>>),
                              fault), fault),
          Attr("pets", Answer("pets", PyList(<<FooResolver(5, fault), CatResolver(fault)>>),
                              fault), fault),
          Attr("pet", Answer("pet", CatResolver(fault), fault), fault),
          Attr("s", PyInt(8), fault),
          Attr("d", PyInt(9), fault),
          Attr("r", PyInt(5), fault)>>)

\* the selections the documents are written with
PlainSelections ==
    {"n", "a: n", "foo {y: bar x: bar}", "kids {b: bar a: bar b: bar}"}

Selections ==
    PlainSelections \cup
    {"pets {bar ... on Foo {z: bar}}", "... f",
     "n @skip(if: true)", "b: n @include(if: false)", "c: n @skip(if: false)",
     "s", "s(a: 1, z: 2)", "n(z: 1)", "d(y: 2)", "foo {baz(y: 1)}", "d", "r"}

\* selections of the spreadable fields of the query object
SpreadableSelections ==
    {"foo {y: bar x: bar}", "kids {b: bar a: bar b: bar}", "pets {bar}", "pet {bar}",
     "n foo {bar}"}

\* whole documents
Documents ==
    {"", "fragment f on Foo {bar}", "query a {n} query b {a: n}",
     "query a {n} query a {a: n}", "query a {n} query b {foo {bar}}",
     "query b {a: n} {n}", "query a($v: Int) {s(a: $v)}",
     "query a($v: Int = 2) {s(a: $v)}", "query a($v: Int!) {s(a: $v)}",
     "query a($v: Int! = 3) {s(a: $v)}", "query a($v: Int = \"x\") {s(a: $v)}",
     "query a($v: Zed) {n}", "mutation a {n}", "{pet {... on Cat {bar}}}", "{",
     "{n} {n}", "{s(a: 1, a: 2)}", "{n {bar}}", "{foo}", "{s(a: 1)}",
     "{foo {baz(x: 1)}}", "{d}", "{foo {baz(x: 1, y: 2)}}", "{foo {baz(y: 2, x: 1)}}",
     "{kids}", "{pets}", "{pet}", "{foo {bar {x}}}", "{foo {kin}}", "{foo {kin {bar}}}",
     "{foo {kin {bar {x}}}}", "{kids {bar}}", "{pet {bar}}", "{pets {bar}}",
     "{foo {pal {bar}}}", "{foo {pal {... on Cat {bar}}}}",
     "{pet {... f}} fragment f on Cat {bar}",
     "{nope}", "{foo {nope}}", "{foo {bar nope}}", "{foo {pal {... on Cat {nope}}}}",
     "{foo {... on Foo {nope}}}", "{foo {... on Foo {bar}}}", "{foo {... {nope}}}",
     "{foo {... f}} fragment f on Foo {nope}", "{foo {... f}} fragment f on Foo {bar}",
     "{foo {... f}} fragment f on Foo {... on Foo {nope}}",
     "{r}", "{r(a: 1)}", "{r(a: null)}", "query a($v: Int) {r(a: $v)}",
     "query a($v: Int!) {r(a: $v)}", "query a($v: Int) {r(a: $w)}"}

\* the variables a call may come with
Bindings ==
    {<<>>, <<[k |-> "v", v |-> PyInt(1)]>>, <<[k |-> "v", v |-> [py |-> "str", str |-> "x"]]>>}

QueryInputs ==
    {[parts |-> <<"{">> \o ps \o <<"}">>,
      call |-> [variables |-> <<>>, operation_name |-> None, resolver |-> QueryResolver("")]] :
        ps \in SeqUpTo(Selections, MaxSelections)}
    \cup
    {[parts |-> <<"{">> \o ps \o <<"}">>,
      call |-> [variables |-> <<>>, operation_name |-> None, resolver |-> QueryResolver(f)]] :
        ps \in SeqUpTo(PlainSelections, MaxSelections), f \in Faults}
    \cup
    {[parts |-> <<"{", p, "}">>,
      call |-> [variables |-> <<>>, operation_name |-> None, resolver |-> QueryResolver(f)]] :
        p \in SpreadableSelections, f \in Incompatible}
    \cup
    {[parts |-> <<d>>,
      call |-> [variables |-> v, operation_name |-> o, resolver |-> QueryResolver("")]] :
        d \in Documents,
        v \in Bindings,
        o \in {None, "a", "b", "zz"}}

QueryInit ==
    /\ \E inp \in QueryInputs :
          /\ parts = inp.parts
          /\ text = Join(inp.parts, " ")
          /\ call = inp.call
    /\ initial = DocumentParser(Caller)
    /\ reader = [index |-> 0, lineno |-> 1]
    /\ stack = <<>>
    /\ out = <<>>
    /\ pstate = "idle"
    /\ perr = ""
    /\ nsteps = 0
    /\ schema = QuerySchema
    /\ sstate = "constructed"
    /\ serr = ""
    /\ resolved = resolve_all_refs(QuerySchema.types, TypesRefs(QuerySchema.types), {}).resolved
    /\ vresult = <<>>
    /\ qresult = <<>>
    /\ runner = <<>>
    /\ ParsedOnce

QueryNext ==
    \/ parse_begin
    \/ parse_step
    \/ parse_end
    \/ validate_call
    \/ Executor_query

SpecQuery == QueryInit /\ [][QueryNext]_vars

----------------------------------------------------------------------------
(* Properties of the executor.                                             *)

\* Executor.query has returned or raised, and what it gave
Asked == Len(qresult) = 1

\* the operation the call is about: <<>> when the document has none
AskedOperation ==
    IF pstate = "done" /\ Len(out[1].operations) > 0
    THEN PickOperation(out[1].operations, call.operation_name)
    ELSE <<>>

\* the name a field selection is answered under: its alias when it has one
ResponseName(sel) == IF sel.alias = None THEN sel.name ELSE sel.alias

\* the response names of the selections, each at the place where it is
\* first written
RECURSIVE FirstWritten(_)
FirstWritten(selections) ==
    IF Len(selections) = 0 THEN <<>>
    ELSE Let(FirstWritten(SubSeq(selections, 1, Len(selections) - 1)), LAMBDA before :
        IF ResponseName(selections[Len(selections)]) \in Range(before) THEN before
        ELSE Append(before, ResponseName(selections[Len(selections)])))

\* the keys of a response object, in order
Keys(value) == [i \in 1..Len(value.entries) |-> value.entries[i].k]

\* value answers the selections: a response object has the response names
\* of the selections as its keys, in the order they are first written, and
\* under each key the answer to the sub-selections of the selection written
\* last under that name; a list answers them element by element
RECURSIVE WellKeyed(_, _)
WellKeyed(selections, value) ==
    IF value.py = "list"
    THEN \A i \in 1..Len(value.items) : WellKeyed(selections, value.items[i])
    ELSE IF value.py = "dict"
    THEN /\ Keys(value) = FirstWritten(selections)
         /\ \A i \in 1..Len(value.entries) :
               \E j \in 1..Len(selections) :
                  /\ ResponseName(selections[j]) = value.entries[i].k
                  /\ \A l \in (j + 1)..Len(selections) :
                        ResponseName(selections[l]) # value.entries[i].k
                  /\ WellKeyed(selections[j].selections, value.entries[i].v)
    ELSE TRUE

\* C3: the response object of a selection set is keyed by the response
\* names of the selected fields (alias when present, field name otherwise),
\* in the order in which the selections are first written in the document,
\* at every nesting level and for every element of a list result.
C3_ResponseKeysInDocumentOrder ==
    (Asked /\ qresult[1].exc = "") =>
        /\ Len(AskedOperation) = 1
        /\ qresult[1].value.py = "dict"
        /\ WellKeyed(AskedOperation[1].selections, qresult[1].value)

\* C3: a response with an aliased field before a list of two elements, each
\* keyed by aliases of which one is written twice
C3_Witness ==
    /\ Asked
    /\ qresult[1].exc = ""
    /\ Len(qresult[1].value.entries) = 2
    /\ qresult[1].value.entries[1].k = "a"
    /\ qresult[1].value.entries[2].k = "kids"
    /\ Len(qresult[1].value.entries[2].v.items) = 2
    /\ \A i \in 1..2 : Keys(qresult[1].value.entries[2].v.items[i]) = <<"b", "a">>

\* the exceptions the resolvers raise themselves
ResolverExceptions == {"ValueError", "AttributeError"}

\* C4: an exception raised while a resolver attribute is read or called
\* ends query with a Resolver-execution error that has the generic message
\* and the original exception as its cause; no resolver exception leaves
\* query in its own type, for plain and for spreadable fields.
C4_ResolverExceptionsWrapped ==
    Asked =>
        /\ qresult[1].exc \notin ResolverExceptions
        /\ \A i \in 1..Len(qresult[1].calls) :
              qresult[1].calls[i].raised # "" =>
                 /\ i = Len(qresult[1].calls)
                 /\ qresult[1].exc = "GqlExecutionResolverError"
                 /\ qresult[1].err = "Resolver internal error"
                 /\ qresult[1].cause = qresult[1].calls[i].raised

\* C4: a resolver of a nested field raised after the resolver of the
\* spreadable field around it had returned
C4_Witness ==
    /\ Asked
    /\ qresult[1].exc = "GqlExecutionResolverError"
    /\ qresult[1].cause = "ValueError"
    /\ Len(qresult[1].calls) >= 2
    /\ qresult[1].calls[Len(qresult[1].calls)].type = "Foo"

\* the error kinds the engine declares
DeclaredErrors ==
    {"GqlParsingError", "GqlExecutionQueryError", "GqlExecutionResolverError"}

\* C5: for every query text, variables and operation name, query returns a
\* complete response or raises one error of the engine's declared kinds
\* (parsing, client, resolver execution or compatibility); no exception of
\* another type escapes, also not for empty documents, fragment-only
\* documents and documents with fragment spreads or inline fragments.
C5_OnlyDeclaredErrors ==
    Asked =>
        \/ qresult[1].exc = "" /\ qresult[1].value.py = "dict"
        \/ qresult[1].exc \in DeclaredErrors /\ qresult[1].value = PyNone

\* the declared type a type expression is about: the type declared under
\* the name at its bottom, a scalar for anything else
NamedTypeOf(sch, type) ==
    IF /\ Innermost(type).t = "Ref"
       /\ DictHas(sch.types, Innermost(type).type_name)
    THEN DictGet(sch.types, Innermost(type).type_name)
    ELSE Innermost(type)

\* a resolver of the given type tag meets the type condition: the tag is
\* the condition's Object, an Object that implements the condition's
\* Interface, or a member of the condition's Union
MeetsCondition(sch, on_type, tag) ==
    /\ DictHas(sch.types, on_type)
    /\ DictHas(sch.types, tag)
    /\ \/ DictGet(sch.types, on_type).t = "Object" /\ on_type = tag
       \/ /\ DictGet(sch.types, on_type).t = "Interface"
          /\ DictGet(sch.types, tag).t = "Object"
          /\ on_type \in Range(DictGet(sch.types, tag).interfaces)
       \/ /\ DictGet(sch.types, on_type).t = "Union"
          /\ tag \in Range(DictGet(sch.types, on_type).possible_types)

\* the selections are fields without arguments and directives, and inline
\* fragments with a type condition around such fields
FieldsAndTypedFragments(selections) ==
    \A i \in 1..Len(selections) :
        /\ Len(selections[i].directives) = 0
        /\ \/ /\ selections[i].node = "FieldSelection"
              /\ Len(selections[i].arguments) = 0
              /\ Len(selections[i].selections) = 0
           \/ /\ selections[i].node = "InlineFragment"
              /\ Len(selections[i].on_type) = 1
              /\ \A j \in 1..Len(selections[i].selections) :
                    /\ selections[i].selections[j].node = "FieldSelection"
                    /\ Len(selections[i].selections[j].arguments) = 0
                    /\ Len(selections[i].selections[j].directives) = 0
                    /\ Len(selections[i].selections[j].selections) = 0

\* the keys such selections give for a resolver of the given type tag
KeysFor(sch, selections, tag) ==
    {ResponseName(selections[i]) :
        i \in {j \in 1..Len(selections) : selections[j].node = "FieldSelection"}}
    \cup
    UNION {{ResponseName(selections[i].selections[j]) :
                j \in 1..Len(selections[i].selections)} :
            i \in {j \in 1..Len(selections) :
                      /\ selections[j].node = "InlineFragment"
                      /\ MeetsCondition(sch, selections[j].on_type[1].name, tag)}}

\* the operation asked for selects one field that a faultless resolver
\* answers with a resolver or a list of resolvers, by fields and inline
\* fragments with type conditions
TypedFragmentsAsked ==
    /\ Len(AskedOperation) = 1
    /\ Len(AskedOperation[1].variables) = 0
    /\ AskedOperation[1].node = "Query"
    /\ Len(AskedOperation[1].selections) = 1
    /\ AskedOperation[1].selections[1].node = "FieldSelection"
    /\ Len(AskedOperation[1].selections[1].arguments) = 0
    /\ Len(AskedOperation[1].selections[1].directives) = 0
    /\ \E i \in 1..Len(AskedOperation[1].selections[1].selections) :
          AskedOperation[1].selections[1].selections[i].node = "InlineFragment"
    /\ FieldsAndTypedFragments(AskedOperation[1].selections[1].selections)
    /\ call.resolver = QueryResolver("")
    /\ DictHas(call.resolver.attrs, AskedOperation[1].selections[1].name)

\* the resolvers behind the one selected field, as a list
ResolversAsked ==
    Let(DictGet(call.resolver.attrs, AskedOperation[1].selections[1].name).returns,
        LAMBDA r : IF r.py = "list" THEN r.items ELSE <<r>>)

\* the answers to the one selected field, as a list
AnswersGiven ==
    Let(qresult[1].value.entries[1].v,
        LAMBDA v : IF v.py = "list" THEN v.items ELSE <<v>>)

\* C7: the selections of an inline fragment with a type condition
\* contribute to the result computed for a resolver if and only if the type
\* tag of that resolver is the condition's Object, implements the
\* condition's Interface or is a member of the condition's Union; the
\* decision is taken for each resolver, so that two elements of one list
\* get different key sets; a fragment that does not match contributes
\* nothing and raises nothing.
C7_FragmentsByTypeCondition ==
    (Asked /\ TypedFragmentsAsked) =>
        /\ qresult[1].exc = ""
        /\ Len(AnswersGiven) = Len(ResolversAsked)
        /\ \A i \in 1..Len(ResolversAsked) :
              Range(Keys(AnswersGiven[i])) =
                  KeysFor(schema, AskedOperation[1].selections[1].selections,
                          ResolversAsked[i].type)

\* the directive tells to leave the selection out: @skip(if: true) or
\* @include(if: false)
LeftOut(directives) ==
    \E i \in 1..Len(directives) :
        /\ Len(directives[i].arguments) = 1
        /\ directives[i].arguments[1].name = "if"
        /\ directives[i].arguments[1].value.node = "BoolValue"
        /\ \/ directives[i].name = "skip" /\ directives[i].arguments[1].value.value
           \/ directives[i].name = "include" /\ ~directives[i].arguments[1].value.value

\* the directive tells to keep the selection: @skip(if: false) or
\* @include(if: true)
Kept(directives) ==
    /\ Len(directives) > 0
    /\ \A i \in 1..Len(directives) :
        /\ Len(directives[i].arguments) = 1
        /\ directives[i].arguments[1].name = "if"
        /\ directives[i].arguments[1].value.node = "BoolValue"
        /\ \/ directives[i].name = "skip" /\ ~directives[i].arguments[1].value.value
           \/ directives[i].name = "include" /\ directives[i].arguments[1].value.value

\* C8: a selection annotated @skip(if: true) or @include(if: false)
\* contributes no key to the response and no resolver attribute is asked
\* for on its account; a selection annotated @skip(if: false) or
\* @include(if: true) is evaluated as without the directive.  Stated for
\* the field selections at the top of the operation whose response name
\* and field name no sibling shares.
C8_DirectivesSkipAndInclude ==
    (Asked /\ Len(AskedOperation) = 1) =>
        \A i \in 1..Len(AskedOperation[1].selections) :
            (/\ AskedOperation[1].selections[i].node = "FieldSelection"
             /\ \A j \in 1..Len(AskedOperation[1].selections) :
                   (j # i /\ AskedOperation[1].selections[j].node = "FieldSelection") =>
                       /\ ResponseName(AskedOperation[1].selections[j])
                              # ResponseName(AskedOperation[1].selections[i])
                       /\ AskedOperation[1].selections[j].name
                              # AskedOperation[1].selections[i].name)
            =>
            /\ LeftOut(AskedOperation[1].selections[i].directives) =>
                  /\ qresult[1].exc = "" =>
                        ResponseName(AskedOperation[1].selections[i])
                            \notin Range(Keys(qresult[1].value))
                  /\ \A c \in 1..Len(qresult[1].calls) :
                        ~(/\ qresult[1].calls[c].type = call.resolver.type
                          /\ qresult[1].calls[c].name = AskedOperation[1].selections[i].name)
            /\ (Kept(AskedOperation[1].selections[i].directives) /\ qresult[1].exc = "") =>
                  ResponseName(AskedOperation[1].selections[i])
                      \in Range(Keys(qresult[1].value))

----------------------------------------------------------------------------
(* Properties of the arguments of field selections.                        *)

\* the names a field declares as arguments
DeclaredArgs(field_definition) ==
    IF Len(field_definition.args) = 0 THEN {}
    ELSE {field_definition.args[1][i].k : i \in 1..Len(field_definition.args[1])}

\* the names a field declares as arguments without a default
RequiredArgs(field_definition) ==
    IF Len(field_definition.args) = 0 THEN {}
    ELSE {field_definition.args[1][i].k :
            i \in {j \in 1..Len(field_definition.args[1]) :
                      field_definition.args[1][j].v.default_value = PyNone}}

\* the names a selection supplies as arguments
SuppliedArgs(sel) == {sel.arguments[i].name : i \in 1..Len(sel.arguments)}

\* for every selection, at any depth, of a field its type defines: the
\* required arguments it omits and the undeclared arguments it supplies
RECURSIVE ArgumentFaults(_, _, _)
ArgumentFaults(sch, selections, from_type) ==
    UNION {Let(DictGet(from_type.fields, selections[i].name), LAMBDA field_definition :
              {[omitted |-> RequiredArgs(field_definition) \ SuppliedArgs(selections[i]),
                undeclared |-> SuppliedArgs(selections[i]) \ DeclaredArgs(field_definition)]}
              \cup
              (IF NamedTypeOf(sch, field_definition.type).t \in {"Object", "Interface"}
               THEN ArgumentFaults(sch, selections[i].selections,
                                   NamedTypeOf(sch, field_definition.type))
               ELSE {})) :
           i \in {j \in 1..Len(selections) :
                     /\ selections[j].node = "FieldSelection"
                     /\ DictHas(from_type.fields, selections[j].name)}}

\* validate has returned or raised for a document of one query
Validated ==
    /\ Len(vresult) = 1
    /\ Len(out[1].operations) = 1
    /\ out[1].operations[1].node = "Query"
    /\ call.operation_name = None

\* the argument faults of the one query of the document
FaultsWritten == ArgumentFaults(schema, out[1].operations[1].selections, schema.query)

\* C9: validate raises a Validation error that names the argument when a
\* field selection, at any depth, omits an argument the schema declares
\* without a default; when every selection supplies all such arguments (and
\* no undeclared one) validate raises nothing on account of the arguments.
C9_RequiredArguments ==
    Validated =>
        /\ (\E f \in FaultsWritten : f.omitted # {}) =>
              /\ vresult[1].exc = "GqlValidationError"
              /\ vresult[1].err = "Selection miss required arguments: " =>
                    /\ vresult[1].names # {}
                    /\ \E f \in FaultsWritten : vresult[1].names \subseteq f.omitted
        /\ (\A f \in FaultsWritten : f.omitted = {} /\ f.undeclared = {}) =>
              /\ vresult[1].exc # "KeyError"
              /\ vresult[1].err \notin {"Selection miss required arguments: ",
                                        "Undefined argument: ",
                                        "Field does not support args"}

\* query has returned or raised for an operation whose first selection is
\* of a field of the query object and supplies an argument the field does
\* not declare
UndeclaredAsked ==
    /\ Asked
    /\ Len(AskedOperation) = 1
    /\ AskedOperation[1].node = "Query"
    /\ Len(AskedOperation[1].variables) = 0
    /\ Len(AskedOperation[1].selections) > 0
    /\ AskedOperation[1].selections[1].node = "FieldSelection"
    /\ DictHas(schema.query.fields, AskedOperation[1].selections[1].name)
    /\ SuppliedArgs(AskedOperation[1].selections[1])
          \ DeclaredArgs(DictGet(schema.query.fields,
                                 AskedOperation[1].selections[1].name)) # {}

\* C10: an argument the selected field does not declare is reported as a
\* Validation (client) error by validate and by query, never as another
\* exception and never accepted, whatever other arguments of the field are
\* supplied or omitted and whether or not the field declares arguments.
C10_UndeclaredArguments ==
    /\ (Validated /\ \E f \in FaultsWritten : f.undeclared # {}) =>
          vresult[1].exc = "GqlValidationError"
    /\ UndeclaredAsked => qresult[1].exc = "GqlExecutionQueryError"

----------------------------------------------------------------------------
(* Properties of the shape of selections.                                  *)

\* the kinds of type a field is selected from with nested selections
SpreadableKinds == {"Object", "Interface", "Union"}

\* for every selection, at any depth, of a field its type defines: whether
\* the unwrapped type of the field is spreadable, how many nested
\* selections and arguments it is written with, and the required arguments
\* it omits
RECURSIVE SelectionShapes(_, _, _)
SelectionShapes(sch, selections, from_type) ==
    UNION {Let(DictGet(from_type.fields, selections[i].name), LAMBDA field_definition :
              {[spreadable |-> NamedTypeOf(sch, field_definition.type).t \in SpreadableKinds,
                nested |-> Len(selections[i].selections),
                arguments |-> Len(selections[i].arguments),
                omitted |-> RequiredArgs(field_definition) \ SuppliedArgs(selections[i])]}
              \cup
              (IF NamedTypeOf(sch, field_definition.type).t \in {"Object", "Interface"}
               THEN SelectionShapes(sch, selections[i].selections,
                                    NamedTypeOf(sch, field_definition.type))
               ELSE {})) :
           i \in {j \in 1..Len(selections) :
                     /\ selections[j].node = "FieldSelection"
                     /\ DictHas(from_type.fields, selections[j].name)}}

\* the shapes of the selections of the one query of the document
ShapesWritten == SelectionShapes(schema, out[1].operations[1].selections, schema.query)

\* C11: a field whose type without its List and NonNull wrappers is an
\* Object, Interface or Union is valid only with at least one nested
\* selection, and a field whose unwrapped type is a scalar only with none;
\* validate raises a Validation error for each violation.  Stated for
\* documents whose selections have no arguments and omit none.
C11_SelectionShape ==
    (/\ Validated
     /\ \A f \in ShapesWritten : f.arguments = 0 /\ f.omitted = {}
     /\ \E f \in ShapesWritten : f.spreadable <=> f.nested = 0)
    => vresult[1].exc = "GqlValidationError"

\* for every selection, at any depth, of a field whose unwrapped type is a
\* Union: whether its selection set has a field selection written directly
\* in it
RECURSIVE UnionSelections(_, _, _)
UnionSelections(sch, selections, from_type) ==
    UNION {Let(DictGet(from_type.fields, selections[i].name), LAMBDA field_definition :
              (IF NamedTypeOf(sch, field_definition.type).t = "Union"
               THEN {[bare |-> \E k \in 1..Len(selections[i].selections) :
                                  selections[i].selections[k].node = "FieldSelection"]}
               ELSE {})
              \cup
              (IF NamedTypeOf(sch, field_definition.type).t \in {"Object", "Interface"}
               THEN UnionSelections(sch, selections[i].selections,
                                    NamedTypeOf(sch, field_definition.type))
               ELSE {})) :
           i \in {j \in 1..Len(selections) :
                     /\ selections[j].node = "FieldSelection"
                     /\ DictHas(from_type.fields, selections[j].name)}}

\* the one query of the document selects one field of the query object,
\* without arguments and directives, whose unwrapped type is a Union
UnionFieldWritten ==
    /\ pstate = "done"
    /\ Len(out[1].operations) = 1
    /\ out[1].operations[1].node = "Query"
    /\ Len(out[1].operations[1].variables) = 0
    /\ call.operation_name = None
    /\ Len(out[1].operations[1].selections) = 1
    /\ out[1].operations[1].selections[1].node = "FieldSelection"
    /\ Len(out[1].operations[1].selections[1].arguments) = 0
    /\ Len(out[1].operations[1].selections[1].directives) = 0
    /\ DictHas(schema.query.fields, out[1].operations[1].selections[1].name)
    /\ NamedTypeOf(schema, DictGet(schema.query.fields,
                       out[1].operations[1].selections[1].name).type).t = "Union"

\* the selection set written for that field
UnionSelectionSet == out[1].operations[1].selections[1].selections

\* the selection set has a field selection directly in it
BareField(selections) ==
    \E i \in 1..Len(selections) : selections[i].node = "FieldSelection"

\* the selection set is made of inline fragments and fragment spreads,
\* without directives, around fields without arguments
OnlyFragments(selections) ==
    /\ Len(selections) > 0
    /\ \A i \in 1..Len(selections) :
          /\ selections[i].node \in {"InlineFragment", "FragmentSpread"}
          /\ Len(selections[i].directives) = 0
          /\ selections[i].node = "InlineFragment" =>
                \A j \in 1..Len(selections[i].selections) :
                    /\ selections[i].selections[j].node = "FieldSelection"
                    /\ Len(selections[i].selections[j].arguments) = 0
                    /\ Len(selections[i].selections[j].selections) = 0

\* C12: a field is never selected by its bare name on a Union: a selection
\* set on a Union (possibly under List and NonNull) that has a field
\* selection directly in it raises a client error in validate and in query,
\* while one made only of inline fragments and fragment spreads is accepted
\* by both.
C12_NoBareFieldOnUnion ==
    /\ (/\ Validated
        /\ \A f \in ShapesWritten : f.arguments = 0 /\ f.omitted = {}
        /\ \E u \in UnionSelections(schema, out[1].operations[1].selections, schema.query) :
              u.bare)
       => vresult[1].exc = "GqlValidationError"
    /\ (Len(vresult) = 1 /\ UnionFieldWritten /\ OnlyFragments(UnionSelectionSet))
       => vresult[1].exc = ""
    /\ (Asked /\ UnionFieldWritten /\ call.resolver = QueryResolver(""))
       => /\ BareField(UnionSelectionSet) => qresult[1].exc = "GqlExecutionQueryError"
          /\ OnlyFragments(UnionSelectionSet) => qresult[1].exc = ""

----------------------------------------------------------------------------
(* Properties of the values the resolvers return.                          *)

\* the value is what the declared type of a spreadable field allows: not
\* null under NonNull, a list of allowed values under List, at an Object a
\* resolver tagged with its name, at an Interface one tagged with an Object
\* that implements it, at a Union one tagged with a member
RECURSIVE Allowed(_, _, _)
Allowed(sch, type, value) ==
    IF type.t = "NonNull"
    THEN value.py # "NoneType" /\ Allowed(sch, type.of_type, value)
    ELSE IF type.t = "List"
    THEN /\ value.py = "list"
         /\ \A i \in 1..Len(value.items) : Allowed(sch, type.of_type, value.items[i])
    ELSE /\ type.t = "Ref"
         /\ value.py = "resolver"
         /\ MeetsCondition(sch, type.type_name, value.type)

\* the operation asked for selects fields of the query object, without
\* arguments and directives, from a resolver that has them and raises
\* nothing
FieldsAsked ==
    /\ Asked
    /\ Len(AskedOperation) = 1
    /\ AskedOperation[1].node = "Query"
    /\ Len(AskedOperation[1].variables) = 0
    /\ \A i \in 1..Len(AskedOperation[1].selections) :
          /\ AskedOperation[1].selections[i].node = "FieldSelection"
          /\ Len(AskedOperation[1].selections[i].arguments) = 0
          /\ DictHas(schema.query.fields, AskedOperation[1].selections[i].name)
          /\ RequiredArgs(DictGet(schema.query.fields,
                                  AskedOperation[1].selections[i].name)) = {}
          /\ DictHas(call.resolver.attrs, AskedOperation[1].selections[i].name)
          /\ DictGet(call.resolver.attrs, AskedOperation[1].selections[i].name).raises = ""
          /\ (NamedTypeOf(schema, DictGet(schema.query.fields,
                              AskedOperation[1].selections[i].name).type).t
                 \in SpreadableKinds)
             <=> Len(AskedOperation[1].selections[i].selections) > 0

\* the selections of spreadable fields whose resolver attribute returns a
\* value the declared type does not allow
Mismatches ==
    {i \in 1..Len(AskedOperation[1].selections) :
        /\ Len(AskedOperation[1].selections[i].selections) > 0
        /\ ~Allowed(schema,
                    DictGet(schema.query.fields, AskedOperation[1].selections[i].name).type,
                    DictGet(call.resolver.attrs,
                            AskedOperation[1].selections[i].name).returns)}

----------------------------------------------------------------------------
(* Properties of the variables of an operation.                            *)

\* the operation asked for declares one variable, of a named type, and
\* selects the one field s of the query object with the variable as its
\* argument a
VariableAsked ==
    /\ Asked
    /\ Len(AskedOperation) = 1
    /\ AskedOperation[1].node = "Query"
    /\ Len(out[1].operations) = 1 \/ call.operation_name # None
    /\ Len(AskedOperation[1].variables) = 1
    /\ AskedOperation[1].variables[1].type.node = "NamedType"
    /\ Len(AskedOperation[1].selections) = 1
    /\ AskedOperation[1].selections[1].node = "FieldSelection"
    /\ AskedOperation[1].selections[1].name = "s"
    /\ Len(AskedOperation[1].selections[1].directives) = 0
    /\ AskedOperation[1].selections[1].arguments =
          <<Argument("a", Variable(AskedOperation[1].variables[1].name))>>
    /\ call.resolver = QueryResolver("")

\* the value the caller supplies for the variable, if any
Supplied ==
    IF DictHas(call.variables, AskedOperation[1].variables[1].name)
    THEN <<DictGet(call.variables, AskedOperation[1].variables[1].name)>>
    ELSE <<>>

\* the Python value of a literal default
LiteralValue(value) ==
    CASE value.node = "IntValue" -> PyInt(value.value)
      [] value.node = "StrValue" -> [py |-> "str", str |-> value.value]
      [] OTHER -> PyNone

\* the value the variable is to be bound to: the supplied one, else the
\* declared default, else null
Bound ==
    IF Len(Supplied) = 1 THEN Supplied[1]
    ELSE IF Len(AskedOperation[1].variables[1].default) = 1
    THEN LiteralValue(AskedOperation[1].variables[1].default[1])
    ELSE PyNone

\* the value may be assigned to the declared type of the variable
Assignable(type, value) ==
    /\ type.name = "Int"
    /\ IF value.py = "NoneType" THEN type.null ELSE value.py = "int"

\* C14: before any resolver is invoked each variable of the operation is
\* bound to the value the caller supplies and otherwise to its declared
\* default; a NonNull variable with neither, and a variable whose bound
\* value is not assignable to its declared type, end query with a client
\* error and no resolver is invoked; otherwise the resolver is called with
\* the bound value.
C14_VariablesBound ==
    VariableAsked =>
        IF Assignable(AskedOperation[1].variables[1].type, Bound)
        THEN /\ qresult[1].exc = ""
             /\ Len(qresult[1].calls) = 1
             /\ qresult[1].calls[1].args = <<[k |-> "a", v |-> Bound]>>
        ELSE /\ qresult[1].exc = "GqlExecutionQueryError"
             /\ qresult[1].calls = <<>>

----------------------------------------------------------------------------
(* Properties of the choice of the operation.                              *)

\* the document is parsed and the call does not tell one operation of it:
\* there are several and no name is given, or none has the name given
NotSelected ==
    /\ pstate = "done"
    /\ \/ call.operation_name = None /\ Len(out[1].operations) > 1
       \/ /\ call.operation_name # None
          /\ \A i \in 1..Len(out[1].operations) :
                out[1].operations[i].name # call.operation_name

\* C15: an operation is run only when it is told without ambiguity: when
\* the document has several operations and no name is given, or no
\* operation has the name given, validate and query raise a client error
\* and no resolver is invoked; when the name matches, the response is the
\* one of an operation of that name.
C15_OperationSelected ==
    /\ (Len(vresult) = 1 /\ NotSelected) => vresult[1].exc = "GqlValidationError"
    /\ (Asked /\ NotSelected) =>
          /\ qresult[1].exc = "GqlExecutionQueryError"
          /\ qresult[1].calls = <<>>
    /\ (Asked /\ pstate = "done" /\ call.operation_name # None /\ qresult[1].exc = "") =>
          \E i \in 1..Len(out[1].operations) :
             /\ out[1].operations[i].name = call.operation_name
             /\ Keys(qresult[1].value) = FirstWritten(out[1].operations[i].selections)
             /\ WellKeyed(out[1].operations[i].selections, qresult[1].value)

\* C15: of two operations the second, asked for by its name, was run
C15_Witness ==
    /\ Asked
    /\ pstate = "done"
    /\ Len(out[1].operations) = 2
    /\ call.operation_name = out[1].operations[2].name
    /\ out[1].operations[1].name # call.operation_name
    /\ qresult[1].exc = ""
    /\ Keys(qresult[1].value) = FirstWritten(out[1].operations[2].selections)
    /\ Keys(qresult[1].value) # FirstWritten(out[1].operations[1].selections)

----------------------------------------------------------------------------
(* parse_document() called on a text and then on the same text with        *)
(* insignificant characters put between two of its tokens.                 *)

\* how many times the separator is written at the place it is put in
MaxInserted == 2

\* documents as sequences of tokens; a token that must be kept apart from
\* the next one carries the blank that does so
TokenTexts ==
    {<<"{", "a", "}">>,
     <<"query ", "q", "(", "$v", ":", "[", "Int", "!", "]", "=", "[", "1", "]", ")",
       "@d", "(", "x", ":", "\"s\"", ")", "{", "a", "}">>,
     <<"{", "r", ":", "a", "(", "x", ":", "{", "k", ":", "-1.5e1", "}", ")", "@e",
       "{", "c", "}", "}">>,
     <<"{", "...", "f", "}">>,
     <<"{", "...", "on ", "T", "{", "a", "}", "}">>,
     <<"{", "...", "{", "a", "}", "}">>,
     <<"{", "...", "@d", "{", "a", "}", "}">>,
     <<"fragment ", "f", " on ", "T", "{", "a", "}", "mutation", "{", "b", "}">>,
     <<"{", "}">>,
     <<"{", "a", "}", "}">>}

\* what lookup_ch passes over: blank, tab, newline, comma, a comment line
Separators == {" ", "\t", "\n", ",", "# c\n"}

\* s written n times
RECURSIVE Repeat(_, _)
Repeat(s, n) == IF n = 0 THEN "" ELSE s \o Repeat(s, n - 1)

\* the tokens written one after the other with s after the first at tokens
Inserted(tokens, at, s) ==
    Join(SubSeq(tokens, 1, at), "") \o s \o Join(SubSeq(tokens, at + 1, Len(tokens)), "")

ReparseInputs ==
    UNION {{[parts |-> d,
             again |-> [text |-> Inserted(d, at, Repeat(s, n)), at |-> at, sep |-> s]] :
               at \in 1..(Len(d) - 1), s \in Separators, n \in 1..MaxInserted} :
           d \in TokenTexts}

ReparseInit ==
    /\ \E inp \in ReparseInputs :
          /\ parts = inp.parts
          /\ text = Join(inp.parts, "")
          /\ again = <<inp.again>>
    /\ first = <<>>
    /\ given = <<>>
    /\ answer = <<>>
    /\ waiting = <<>>
    /\ alone = <<>>
    /\ initial = DocumentParser(Caller)
    /\ reader = [index |-> 0, lineno |-> 1]
    /\ stack = <<>>
    /\ out = <<>>
    /\ pstate = "idle"
    /\ perr = ""
    /\ nsteps = 0
    /\ SchemaUnused
    /\ QueryUnused

\* parse_document(text) has ended and is called with the other text: the
\* outcome of the call that ended is kept for comparison
parse_again ==
    /\ ParseEnded
    /\ Len(again) = 1
    /\ Len(first) = 0
    /\ first' = <<[pstate |-> pstate, out |-> out]>>
    /\ text' = again[1].text
    /\ reader' = [index |-> 0, lineno |-> 1]
    /\ stack' = <<>>
    /\ out' = <<>>
    /\ pstate' = "idle"
    /\ perr' = ""
    /\ nsteps' = 0
    /\ UNCHANGED <<initial, parts, again, given, answer, waiting, alone, svars, qvars>>

ReparseNext ==
    \/ parse_begin
    \/ parse_step
    \/ parse_end
    \/ parse_again

SpecReparse == ReparseInit /\ [][ReparseNext]_vars

\* C20: putting any number of blanks, tabs, newlines, commas or comment
\* lines between two adjacent tokens of a document changes neither the
\* Document that parse_document returns nor whether it raises an error.
C20_SeparatorsInsignificant ==
    (Len(first) = 1 /\ ParseEnded) =>
        /\ pstate = first[1].pstate
        /\ pstate = "done" => out = first[1].out

\* the selections of the first operation of the document returned
FirstSelections == out[1].operations[1].selections

\* C16: in a selection set, ... followed by a name other than on gives a
\* FragmentSpread of that name, and ... followed by on, @ or { gives an
\* InlineFragment, whatever insignificant characters (none, blanks, tabs,
\* commas, newlines) stand between ... and the next token.
C16_SpreadOrInlineFragment ==
    (/\ ParseEnded
     /\ Len(parts) > 2
     /\ parts[2] = "..."
     /\ Len(first) = 1 => again[1].at = 2 /\ again[1].sep \in {" ", "\t", "\n", ","})
    => /\ pstate = "done"
       /\ Len(FirstSelections) = 1
       /\ IF parts[3] \in {"on ", "@d", "{"}
          THEN FirstSelections[1].node = "InlineFragment"
          ELSE /\ FirstSelections[1].node = "FragmentSpread"
               /\ FirstSelections[1].name = parts[3]

----------------------------------------------------------------------------
(* parse(text, parser) on texts that are written from named pieces: a      *)
(* value in a context, a well-formed text and what follows it, the parts   *)
(* of an operation or of a field in any order.                             *)

\* how deep a value is nested in list and object values
MaxDepth == 2

\* how many parts are written after the keyword of an operation or after
\* the name of a field
MaxOrder == 4

\* the values that are a variable or an integer inside at most n list or
\* object values
RECURSIVE Values(_)
Values(n) ==
    IF n = 0 THEN {"$v", "1"}
    ELSE Values(n - 1)
         \cup {"[" \o v \o "]" : v \in Values(n - 1)}
         \cup {"[1 " \o v \o "]" : v \in Values(n - 1)}
         \cup {"{k: " \o v \o "}" : v \in Values(n - 1)}

\* where a value is written: the frame parse() is started with, what is
\* written before and after the value, and whether the place is constant
\* (a default value)
ValueContexts ==
    {[initial |-> ValueParser(Caller, TRUE), before |-> "", after |-> ""],
     [initial |-> ValueParser(Caller, FALSE), before |-> "", after |-> ""],
     [initial |-> VariableDefinitionParser(Caller), before |-> "$a: Int = ", after |-> ""],
     [initial |-> ArgumentParser(Caller), before |-> "x: ", after |-> ""],
     [initial |-> DocumentParser(Caller), before |-> "query ($a: Int = ", after |-> ") {a}"],
     [initial |-> DocumentParser(Caller), before |-> "{a(x: ", after |-> ")}"]}

ValueInputs ==
    {[initial |-> c.initial, parts |-> <<"value", c.before, v, c.after>>] :
        c \in ValueContexts, v \in Values(MaxDepth)}

\* texts that their frame parses to the end
Parsed ==
    {[initial |-> DocumentParser(Caller), body |-> "{a}"],
     [initial |-> DocumentParser(Caller), body |-> "query q {a} fragment f on T {b}"],
     [initial |-> FragmentSpreadParser(Caller), body |-> "... f"],
     [initial |-> FieldParser(Caller), body |-> "a"],
     [initial |-> ValueParser(Caller, FALSE), body |-> "\"s\""],
     [initial |-> ValueParser(Caller, FALSE), body |-> "[1]"]}

\* what is written after them: nothing, insignificant characters, and
\* characters that are not
Insignificants == {"", " ", "\t", "\r\n", ",", "# c", " ,\n# c\n\t", "#}\n"}

Danglings == {"}", "# c\n)", "\n\n$", " =", ",!", " \"\""}

TailInputs ==
    {[initial |-> p.initial, parts |-> <<"tail", p.body, t>>] :
        p \in Parsed, t \in Insignificants \cup Danglings}

\* the parts of an operation after its keyword, and of a field after its name
OperationParts == {" q", "($v: Int)", "@d(y: 2)", "{a}"}

FieldParts == {"(x: 1)", "@d(y: 2)", "{a}"}

OrderInputs ==
    {[initial |-> OperationParser(k, Caller), parts |-> <<"order", k>> \o ps] :
        k \in {"query", "mutation"}, ps \in SeqUpTo(OperationParts, MaxOrder)}
    \cup
    {[initial |-> FieldParser(Caller), parts |-> <<"order", "f">> \o ps] :
        ps \in SeqUpTo(FieldParts, MaxOrder)}

\* how many pieces a text of several lines is written from
MaxLines == 3

\* pieces of lines: line ends, a comment, a string that is left open, an
\* escape and a unicode escape that are cut, and what ends them well
LinePieces == {"{a(x: ", "\"s", "\n", "# c\n", "\\", "\\u0", "\" y: ", "$", "1)}"}

LineInputs ==
    {[initial |-> f, parts |-> <<"lines">> \o ps] :
        f \in {DocumentParser(Caller), ValueParser(Caller, FALSE)},
        ps \in SeqUpTo(LinePieces, MaxLines)}

\* numeric literals, well-formed and not (a leading zero, a dot without
\* digits)
Numbers == {"0", "-0", "3", "-12", "1.5", "-0.25", "0.1e2", "1e2", "1E-2", "-1e+2"}

Malformed == {"01", "-01", "00", "1.", "1.e2"}

\* the places a number is written in: alone, in a list, in an object, as
\* an argument, and in a list and an object of an argument of a document
NumberContexts ==
    {[initial |-> ValueParser(Caller, FALSE), before |-> "", after |-> ""],
     [initial |-> ValueParser(Caller, TRUE), before |-> "[", after |-> "]"],
     [initial |-> ValueParser(Caller, FALSE), before |-> "{k: ", after |-> "}"],
     [initial |-> ArgumentParser(Caller), before |-> "x: ", after |-> ""],
     [initial |-> DocumentParser(Caller), before |-> "{a(x: [", after |-> "])}"],
     [initial |-> DocumentParser(Caller), before |-> "{a(x: {k: ", after |-> "})}"]}

NumberInputs ==
    {[initial |-> c.initial, parts |-> <<"number", c.before, n, c.after>>] :
        c \in NumberContexts, n \in Numbers \cup Malformed}

\* what a selection that begins with a dot begins with
Dots == {"...", "..", ".", ".ab", ".. ", ". .", "....", "..a"}

\* what follows it
AfterDots == {" {a}", "{a}", " f", "f", " on T {a}", "on T {a}", ""}

\* the selection sets whose one selection begins with a dot, for the
\* document and for the frame of the selection set
DotInputs ==
    {[initial |-> f, parts |-> <<"dots", IF f.kind = "SelectionsParser" THEN "" ELSE "{",
                                 "{", d, a, "}",
                                 IF f.kind = "SelectionsParser" THEN "" ELSE "}">>] :
        f \in {DocumentParser(Caller), SelectionsParser(Caller)},
        d \in Dots, a \in AfterDots}

TextInputs ==
    ValueInputs \cup TailInputs \cup OrderInputs \cup LineInputs \cup NumberInputs
    \cup DotInputs

TextsInit ==
    /\ \E inp \in TextInputs :
          /\ initial = inp.initial
          /\ parts = inp.parts
          /\ text = Join(Tail(inp.parts), "")
    /\ reader = [index |-> 0, lineno |-> 1]
    /\ stack = <<>>
    /\ out = <<>>
    /\ pstate = "idle"
    /\ perr = ""
    /\ nsteps = 0
    /\ SchemaUnused
    /\ QueryUnused
    /\ ParsedOnce

SpecTexts == TextsInit /\ [][ParserNext]_vars

\* the frames that parse a value and carry the const flag
ValueFrames == {"ValueParser", "ListValueParser", "ObjectValueParser"}

\* parse() was given a value written in one of the contexts
ValueAsked == parts[1] = "value"

\* the value is written where a constant is demanded: parse() was started
\* with a const ValueParser, or the value is the default of a variable
DefaultPlace ==
    \/ initial = ValueParser(Caller, TRUE)
    \/ initial.kind = "VariableDefinitionParser"
    \/ parts[2] = "query ($a: Int = "

\* $v is written in s
WritesVariable(s) == \E i \in 1..(Len(s) - 1) : SubSeq(s, i, i + 1) = "$v"

\* the values a list or object frame has collected
Collected(fr) ==
    IF fr.kind = "ListValueParser" THEN Range(fr.values)
    ELSE {e.v : e \in Range(fr.values)}

\* C17: a value parsed where a constant is demanded (the default of a
\* variable) holds no Variable at any depth: $name written directly or
\* inside nested list and object values raises a parsing error, because a
\* value frame started by a value frame has the const flag of that frame;
\* the same text is accepted where an argument is written.
C17_ConstThreaded ==
    /\ \A i \in 2..Len(stack) :
          (stack[i].kind \in ValueFrames /\ stack[i - 1].kind \in ValueFrames)
          => stack[i].const = stack[i - 1].const
    /\ \A i \in 1..Len(stack) :
          (stack[i].kind \in {"ListValueParser", "ObjectValueParser"} /\ stack[i].const)
          => \A n \in Collected(stack[i]) : n.node # "Variable"
    /\ (ValueAsked /\ ParseEnded /\ WritesVariable(parts[3]))
       => IF DefaultPlace
          THEN pstate = "GqlParsingError" /\ out = <<>>
          ELSE pstate = "done" /\ Len(out) = 1

\* a variable two levels down in a default value was refused, and the
\* frames that refused it are const
C17_Witness ==
    /\ ValueAsked
    /\ DefaultPlace
    /\ parts[3] = "[1 {k: $v}]"
    /\ pstate = "GqlParsingError"
    /\ Len(stack) >= 3
    /\ stack[Len(stack)].kind = "ValueParser"
    /\ stack[Len(stack)].const
    /\ stack[Len(stack) - 1].kind = "ObjectValueParser"

\* parse() was given a text that its frame parses to the end, with
\* something written after it
TailAsked == parts[1] = "tail"

\* s without its first line
RECURSIVE NextLine(_)
NextLine(s) ==
    IF s = "" THEN ""
    ELSE IF SubSeq(s, 1, 1) = "\n" THEN s
    ELSE NextLine(SubSeq(s, 2, Len(s)))

\* s is made of blanks, tabs, line ends, commas and comments only
RECURSIVE OnlyInsignificant(_)
OnlyInsignificant(s) ==
    IF s = "" THEN TRUE
    ELSE IF SubSeq(s, 1, 1) \in {" ", "\t", "\r", "\n", ","}
    THEN OnlyInsignificant(SubSeq(s, 2, Len(s)))
    ELSE IF SubSeq(s, 1, 1) = "#"
    THEN OnlyInsignificant(NextLine(s))
    ELSE FALSE

\* what the reader has not read
Unread == SubSeq(text, reader.index + 1, Len(text))

\* C18: parse returns only if the whole input was consumed: when the stack
\* becomes empty while a character other than blanks, commas and comments
\* is unread it raises a parsing error, and insignificant characters after
\* the last frame never make it raise.
C18_AllInputConsumed ==
    [][/\ (pstate = "parsing" /\ Len(stack) = 0)
          => /\ pstate' = IF OnlyInsignificant(Unread) THEN "done" ELSE "GqlParsingError"
             /\ out' = out
       /\ pstate' = "done"
          => /\ pstate = "parsing" /\ Len(stack) = 0
             /\ reader'.index = Len(text)
       /\ (TailAsked /\ pstate' \in {"done", "GqlParsingError", "RuntimeError"})
          => pstate' = IF OnlyInsignificant(parts[3]) THEN "done" ELSE "GqlParsingError"]_vars

\* the last frame has ended before a comment and a bracket, and parse()
\* raised on the bracket
C18_Witness ==
    /\ TailAsked
    /\ parts[3] = "# c\n)"
    /\ Len(stack) = 0
    /\ Len(out) = 1
    /\ pstate = "GqlParsingError"
    /\ perr = "Not all input parsed"

\* parse() was given the keyword of an operation or the name of a field
\* and parts written after it
OrderAsked == parts[1] = "order"

\* the parts that were written, in the order they were written in
WrittenParts == SubSeq(parts, 3, Len(parts))

\* the place of a part in the grammar of an operation and of a field
Place(part) ==
    CASE part = " q" -> 1
      [] part \in {"($v: Int)", "(x: 1)"} -> 2
      [] part = "@d(y: 2)" -> 3
      [] part = "{a}" -> 4

\* the parts ps are written in the order of the grammar, each once:
\* directives written one after the other are one part
InOrder(ps) ==
    \A i \in 2..Len(ps) :
        \/ Place(ps[i - 1]) < Place(ps[i])
        \/ Place(ps[i - 1]) = 3 /\ Place(ps[i]) = 3

\* the longest beginning of ps that is in order
Orderly(ps) ==
    LET n == CHOOSE k \in 0..Len(ps) :
                 /\ InOrder(SubSeq(ps, 1, k))
                 /\ k < Len(ps) => ~InOrder(SubSeq(ps, 1, k + 1))
    IN  SubSeq(ps, 1, n)

\* how many of the parts ps stand at the place pl
Written(ps, pl) == Cardinality({i \in 1..Len(ps) : Place(ps[i]) = pl})

\* how much an operation or a field (frame or node) holds of the place pl
Attached(n, pl) ==
    CASE pl = 1 -> IF n.name = None THEN 0 ELSE 1
      [] pl = 2 -> IF "variables" \in DOMAIN n THEN Len(n.variables) ELSE Len(n.arguments)
      [] pl = 3 -> Len(n.directives)
      [] pl = 4 -> Len(n.selections)

\* the places of the parts of an operation (of a field, the name is not a
\* part)
Places == IF initial.kind = "OperationParser" THEN 1..4 ELSE 2..4

\* C19: the parts of an operation are accepted only in the order name,
\* variable definitions, directives, selection set, each at most once and
\* the selection set always; the parts of a field only in the order
\* arguments, directives, selection set, each at most once.  A part written
\* out of order or a second time is never attached to the node, and the
\* text raises a parsing error.
C19_PartsInOrder ==
    OrderAsked =>
        /\ Len(stack) > 0
           => \A pl \in Places :
                 Attached(stack[1], pl) <= Written(Orderly(WrittenParts), pl)
        /\ ParseEnded
           => /\ pstate = "done"
                 <=> /\ InOrder(WrittenParts)
                     /\ initial.kind = "OperationParser"
                        => Written(WrittenParts, 4) = 1
              /\ pstate # "done" => pstate = "GqlParsingError"
              /\ \A i \in 1..Len(out) : \A pl \in Places :
                    Attached(out[i], pl) <= Written(Orderly(WrittenParts), pl)
              /\ pstate = "done"
                 => /\ Len(out) = 1
                    /\ \A pl \in Places :
                          Attached(out[1], pl) = Written(WrittenParts, pl)

\* variable definitions written after the directives of an operation were
\* refused, and the operation holds the directives only
C19_Witness ==
    /\ OrderAsked
    /\ WrittenParts = <<"@d(y: 2)", "($v: Int)", "{a}">>
    /\ pstate = "GqlParsingError"
    /\ Len(stack) > 0
    /\ stack[1].kind = "OperationParser"
    /\ Len(stack[1].directives) = 1
    /\ Len(stack[1].variables) = 0
    /\ Len(stack[1].selections) = 0

\* how many newline characters stand before the offset i of the text
NewlinesBefore(i) == Cardinality({k \in 0..(i - 1) : CharAt(k) = "\n"})

\* the n-th line of the text
RECURSIVE LineFrom(_, _)
LineFrom(n, i) ==
    LET end == find("\n", i) IN
    IF n = 1 THEN Slice(i, IF end < 0 THEN Len(text) ELSE end)
    ELSE IF end < 0 THEN ""
    ELSE LineFrom(n - 1, end + 1)

NumberAsked == parts[1] = "number"

\* the values that parse() handed over at the place the number is written
\* in
ValuesAt(place) ==
    CASE place = "" -> out
      [] place = "[" -> out[1].values
      [] place = "{k: " -> [i \in 1..Len(out[1].values) |-> out[1].values[i].v]
      [] place = "x: " -> <<out[1].value>>
      [] place = "{a(x: [" ->
            out[1].operations[1].selections[1].arguments[1].value.values
      [] place = "{a(x: {k: " ->
            LET vs == out[1].operations[1].selections[1].arguments[1].value.values
            IN  [i \in 1..Len(vs) |-> vs[i].v]

\* s has a fractional or an exponent part
Fractional(s) == \E i \in 1..Len(s) : SubSeq(s, i, i) \in {".", "e", "E"}

\* C22: a numeric literal is parsed as a single value, a Float if and only
\* if it has a fractional or exponent part and an Int otherwise, and a
\* malformed number such as 01 or 1. raises a parsing error in every value
\* position, also inside list and object values, rather than being split
\* into several values.
C22_NumberIsOneValue ==
    (NumberAsked /\ ParseEnded) =>
        IF parts[3] \in Malformed
        THEN pstate = "GqlParsingError"
        ELSE /\ pstate = "done"
             /\ Len(ValuesAt(parts[2])) = 1
             /\ ValuesAt(parts[2])[1].node
                   = IF Fractional(parts[3]) THEN "FloatValue" ELSE "IntValue"

----------------------------------------------------------------------------
(* Properties of the validation of the selection tree.                     *)

\* the type a type condition names, the type at hand when there is no
\* condition or no such type
Conditioned(sch, on_type, from_type) ==
    IF Len(on_type) = 1 /\ DictHas(sch.types, on_type[1].name)
    THEN DictGet(sch.types, on_type[1].name)
    ELSE from_type

\* the fragments of the document that have the name
Named(fragments, name) == SelectSeq(fragments, LAMBDA f : f.name = name)

\* the names of the fields that the selections, at any depth and through
\* inline fragments and spread fragments, select from a type that does not
\* define them; seen are the fragments being spread
RECURSIVE Undefined(_, _, _, _, _)
Undefined(sch, fragments, selections, from_type, seen) ==
    UNION {Let(selections[i], LAMBDA sel :
              CASE sel.node = "FieldSelection" ->
                      IF ~is_selectable(from_type) THEN {}
                      ELSE IF ~DictHas(from_type.fields, sel.name) THEN {sel.name}
                      ELSE Undefined(sch, fragments, sel.selections,
                               NamedTypeOf(sch, DictGet(from_type.fields, sel.name).type),
                               seen)
                [] sel.node = "InlineFragment" ->
                      Undefined(sch, fragments, sel.selections,
                                Conditioned(sch, sel.on_type, from_type), seen)
                [] OTHER ->
                      IF sel.name \in seen \/ Len(Named(fragments, sel.name)) = 0 THEN {}
                      ELSE Undefined(sch, fragments, Named(fragments, sel.name)[1].selections,
                               Conditioned(sch, <<Named(fragments, sel.name)[1].on_type>>,
                                           from_type),
                               seen \cup {sel.name})) :
           i \in 1..Len(selections)}

\* the undefined fields of the one query of the document
UndefinedWritten ==
    Undefined(schema, out[1].fragments, out[1].operations[1].selections, schema.query, {})

\* C23: validate accepts a query only if every field selection in the
\* selection tree of the operation, at any depth and also inside inline
\* fragments and spread fragments, names a field that its type defines;
\* otherwise it raises a Validation error.
C23_EveryFieldDefined ==
    (Validated /\ UndefinedWritten # {}) => vresult[1].exc = "GqlValidationError"

----------------------------------------------------------------------------
(* Properties of the arguments of a field.                                 *)

\* the operation asked for declares one variable, of a named type, and
\* selects one of the fields s(a: Int) and r(a: Int!) of the query object
\* with a reference to the variable as its argument a
ReferenceAsked ==
    /\ Asked
    /\ Len(AskedOperation) = 1
    /\ AskedOperation[1].node = "Query"
    /\ Len(out[1].operations) = 1 \/ call.operation_name # None
    /\ Len(AskedOperation[1].variables) = 1
    /\ AskedOperation[1].variables[1].type.node = "NamedType"
    /\ Len(AskedOperation[1].selections) = 1
    /\ AskedOperation[1].selections[1].node = "FieldSelection"
    /\ AskedOperation[1].selections[1].name \in {"s", "r"}
    /\ Len(AskedOperation[1].selections[1].directives) = 0
    /\ AskedOperation[1].selections[1].arguments =
          <<Argument("a", Variable(AskedOperation[1].variables[1].name))>>
    /\ call.resolver = QueryResolver("")

\* the call got as far as the argument: it returned, or it raised the
\* client error that __validate_args raises for an argument it rejects
Decided(r) == r.exc = "" \/ (r.exc = "GqlExecutionQueryError" /\ r.err = "")

\* the argument was accepted
Accepted(r) == r.exc = ""

BoundValue ==
    IF DictHas(call.variables, AskedOperation[1].variables[1].name)
    THEN DictGet(call.variables, AskedOperation[1].variables[1].name)
    ELSE PyNone

\* the value may be given to the argument a of the field: an int, and for
\* s(a: Int) also null
Fits(field, value) ==
    IF value.py = "NoneType" THEN field = "s" ELSE value.py = "int"

----------------------------------------------------------------------------
(* Properties of null results.                                             *)

\* the selections whose resolver attribute returns null although the
\* declared type of the field admits it: its outermost layer is not NonNull
NullAnswered ==
    {i \in 1..Len(AskedOperation[1].selections) :
        /\ DictGet(call.resolver.attrs, AskedOperation[1].selections[i].name).returns = PyNone
        /\ DictGet(schema.query.fields, AskedOperation[1].selections[i].name).type.t
              # "NonNull"}

\* C25: when a resolver returns null for a field whose declared type is
\* nullable, the query succeeds and the response holds null under the key
\* of that field, for plain fields and for fields of an Object, Interface
\* or Union type that are selected with nested selections.
C25_NullForNullable ==
    (FieldsAsked /\ NullAnswered # {}) =>
        /\ qresult[1].exc = ""
        /\ \A i \in NullAnswered :
              DictGet(qresult[1].value.entries, ResponseName(AskedOperation[1].selections[i]))
                  = PyNone

\* the same for the plain fields alone
C25_NullForNullablePlain ==
    (FieldsAsked /\ NullAnswered # {}
        /\ \A i \in NullAnswered : Len(AskedOperation[1].selections[i].selections) = 0) =>
        /\ qresult[1].exc = ""
        /\ \A i \in NullAnswered :
              DictGet(qresult[1].value.entries, ResponseName(AskedOperation[1].selections[i]))
                  = PyNone

\* every field selection written in the selections, at any depth
RECURSIVE FieldSelections(_)
FieldSelections(selections) ==
    UNION {Let(selections[i], LAMBDA sel :
              CASE sel.node = "FieldSelection" -> {sel} \cup FieldSelections(sel.selections)
                [] sel.node = "InlineFragment" -> FieldSelections(sel.selections)
                [] OTHER -> {}) :
           i \in 1..Len(selections)}

\* the selections hold nothing but field selections, at any depth
RECURSIVE FieldsOnly(_)
FieldsOnly(selections) ==
    \A i \in 1..Len(selections) :
        /\ selections[i].node = "FieldSelection"
        /\ FieldsOnly(selections[i].selections)

\* the type whose fields a resolver with the type tag answers
Answering(tag) ==
    IF tag # "@query" THEN DictGet(schema.types, tag)
    ELSE IF AskedOperation[1].node = "Query" THEN schema.query
    ELSE schema.mutation[1]

\* the value an argument is written with: a literal, or the value the call
\* binds the variable to
SuppliedValue(value) ==
    IF value.node # "Variable" THEN LiteralValue(value)
    ELSE IF DictHas(call.variables, value.name) THEN DictGet(call.variables, value.name)
    ELSE PyNone

\* the values the operation gives to the declared argument of the field:
\* for each selection of the field the value it supplies, else the declared
\* default, else null
Effective(name, arg) ==
    {IF arg.k \in SuppliedArgs(sel)
     THEN SuppliedValue(sel.arguments[CHOOSE i \in 1..Len(sel.arguments) :
                                         sel.arguments[i].name = arg.k].value)
     ELSE arg.v.default_value :
        sel \in {f \in FieldSelections(AskedOperation[1].selections) : f.name = name}}

\* the selections of fields of the query object that omit an argument that
\* is declared NonNull without a default
Omitting ==
    {i \in 1..Len(AskedOperation[1].selections) :
        /\ AskedOperation[1].selections[i].node = "FieldSelection"
        /\ DictHas(Answering("@query").fields, AskedOperation[1].selections[i].name)
        /\ Let(DictGet(Answering("@query").fields, AskedOperation[1].selections[i].name),
               LAMBDA field_definition :
               \E j \in 1..Len(def_args(field_definition)) :
                   /\ def_args(field_definition)[j].k
                         \notin SuppliedArgs(AskedOperation[1].selections[i])
                   /\ def_args(field_definition)[j].v.type.t = "NonNull"
                   /\ def_args(field_definition)[j].v.default_value = PyNone)}

\* C26: the argument map handed to a resolver holds exactly the arguments
\* the schema declares for the field: for each of them the value supplied in
\* the query, else the declared default, else null when the argument is
\* nullable; no resolver is called with null for a NonNull argument, and a
\* query that omits a NonNull argument without a default fails with a client
\* error.
C26_EffectiveArguments ==
    (Asked /\ Len(AskedOperation) = 1) =>
        /\ \A n \in 1..Len(qresult[1].calls) :
              Let(qresult[1].calls[n], LAMBDA c :
              Let(def_args(DictGet(fields(schema, Answering(c.type)), c.name)),
                  LAMBDA declared :
                  /\ [i \in 1..Len(c.args) |-> c.args[i].k]
                        = [i \in 1..Len(declared) |-> declared[i].k]
                  /\ \A i \in 1..Len(declared) :
                        /\ c.args[i].v \in Effective(c.name, declared[i])
                        /\ declared[i].v.type.t = "NonNull" => c.args[i].v # PyNone))
        /\ (/\ Omitting # {}
            /\ FieldsOnly(AskedOperation[1].selections)
            /\ call.resolver = QueryResolver("")) =>
               qresult[1].exc = "GqlExecutionQueryError"

\* C26: d was called with the default of its argument and r, written after
\* it without its NonNull argument, was not called: the query failed with a
\* client error
C26_Witness ==
    /\ Asked
    /\ Len(AskedOperation) = 1
    /\ Omitting = {2}
    /\ qresult[1].exc = "GqlExecutionQueryError"
    /\ Len(qresult[1].calls) = 1
    /\ qresult[1].calls[1].name = "d"
    /\ qresult[1].calls[1].args = <<[k |-> "y", v |-> PyInt(1)]>>

----------------------------------------------------------------------------
(* The type system asked directly, as the tests of the types do: a type of *)
(* the registry is asked whether a value is assignable to it, or whether a *)
(* value node is a valid input for it.                                     *)

\* how many List and NonNull layers a type asked about has
MaxLayers == 2

\* the named types asked about: scalars and the Object Foo of the registry
AskedNamed == {IntType, [t |-> "Boolean"], [t |-> "String"], Ref("Foo")}

\* the types with at most n layers; NonNull never wraps NonNull
RECURSIVE Layered(_)
Layered(n) ==
    IF n = 0 THEN AskedNamed
    ELSE Layered(n - 1)
         \cup {List(type) : type \in Layered(n - 1)}
         \cup {NonNull(type) : type \in {u \in Layered(n - 1) : u.t # "NonNull"}}

PyBool(b) == [py |-> "bool", bool |-> b]

\* the values a type is asked about
AskedValues ==
    {PyNone, PyInt(1), PyBool(TRUE), [py |-> "str", str |-> "x"],
     PyList(<<>>), PyList(<<PyNone>>), PyList(<<PyInt(1), PyNone>>), PyList(<<PyInt(1)>>),
     PyList(<<PyBool(TRUE), PyNone, PyBool(FALSE)>>), PyList(<<PyInt(1), PyBool(TRUE)>>),
     PyList(<<PyList(<<PyInt(1), PyNone>>), PyNone>>), PyList(<<PyList(<<PyInt(1)>>)>>)}

\* the value nodes a type is asked about
AskedNodes ==
    {NullValue, IntValue(1), Variable("foo"), Variable("zed"),
     ListValue(<<IntValue(1), NullValue>>), ListValue(<<IntValue(1), Variable("foo")>>)}

\* the variables the nodes are read with: foo is declared, zed is not
AskedBindings ==
    {<<>>, <<[k |-> "foo", v |-> PyInt(1)]>>, <<[k |-> "foo", v |-> PyNone]>>,
     <<[k |-> "foo", v |-> PyList(<<PyInt(1), PyNone>>)]>>}

TypeInputs ==
    {[op |-> "is_assignable", type |-> type, value |-> value, node |-> NullValue,
      vars_values |-> <<>>, vars_defs |-> <<>>] :
        type \in Layered(MaxLayers), value \in AskedValues}
    \cup
    {[op |-> "validate_input", type |-> type, value |-> PyNone, node |-> node,
      vars_values |-> vars_values, vars_defs |-> <<[k |-> "foo", v |-> type]>>] :
        type \in Layered(MaxLayers) \ {Ref("Foo")}, node \in AskedNodes,
        vars_values \in AskedBindings}

TypesInit ==
    /\ \E inp \in TypeInputs : given = <<inp>>
    /\ answer = <<>>
    /\ waiting = <<>>
    /\ alone = <<>>
    /\ first = <<>>
    /\ again = <<>>
    /\ text = ""
    /\ parts = <<>>
    /\ initial = DocumentParser(Caller)
    /\ reader = [index |-> 0, lineno |-> 1]
    /\ stack = <<>>
    /\ out = <<>>
    /\ pstate = "idle"
    /\ perr = ""
    /\ nsteps = 0
    /\ schema = QuerySchema
    /\ sstate = "constructed"
    /\ serr = ""
    /\ resolved = resolve_all_refs(QuerySchema.types, TypesRefs(QuerySchema.types), {}).resolved
    /\ QueryUnused

\* type.is_assignable(value, type_registry) is called
is_assignable_call ==
    /\ Len(given) = 1
    /\ given[1].op = "is_assignable"
    /\ Len(answer) = 0
    /\ answer' = <<is_assignable(schema, given[1].type, given[1].value)>>
    /\ UNCHANGED <<pvars, svars, qvars, first, again, given, waiting, alone>>

\* type.validate_input(value, vars_values, vars_defs, type_registry) is called
validate_input_call ==
    /\ Len(given) = 1
    /\ given[1].op = "validate_input"
    /\ Len(answer) = 0
    /\ answer' = <<validate_input(schema, given[1].type, given[1].node,
                                  given[1].vars_values, given[1].vars_defs)>>
    /\ UNCHANGED <<pvars, svars, qvars, first, again, given, waiting, alone>>

TypesNext ==
    \/ is_assignable_call
    \/ validate_input_call

SpecTypes == TypesInit /\ [][TypesNext]_vars

----------------------------------------------------------------------------
(* Properties of the type system.                                          *)

\* the type is a scalar under its List and NonNull layers
PlainUnder(type) == Innermost(type).t \in Scalars

\* is_assignable has answered for a wrapped type over a scalar
AssignableAsked ==
    /\ Len(answer) = 1
    /\ given[1].op = "is_assignable"
    /\ IsWrapped(given[1].type)
    /\ PlainUnder(given[1].type)

\* the type without a NonNull around it
Nullable(type) == IF type.t = "NonNull" THEN type.of_type ELSE type

\* the list without its null elements
NonNullItems(value) == PyList(SelectSeq(value.items, LAMBDA item : item # PyNone))

\* C27: for every List/NonNull-wrapped plain type T, is_assignable(null, T)
\* holds if and only if the outermost layer of T is not NonNull; and a list
\* with null elements is assignable to a list type if and only if it is
\* without them and the outermost layer of the element type is not NonNull.
C27_NullUnlessNonNull ==
    AssignableAsked =>
        /\ answer[1] \in {"True", "False"}
        /\ given[1].value = PyNone =>
              (answer[1] = "True" <=> given[1].type.t # "NonNull")
        /\ (/\ given[1].value.py = "list"
            /\ Nullable(given[1].type).t = "List"
            /\ \E i \in 1..Len(given[1].value.items) : given[1].value.items[i] = PyNone) =>
               (answer[1] = "True" <=>
                   /\ is_assignable(schema, given[1].type, NonNullItems(given[1].value))
                         = "True"
                   /\ Nullable(given[1].type).of_type.t # "NonNull")

\* C27: a list with a null element was refused for a list of NonNull
\* elements
C27_Witness ==
    /\ AssignableAsked
    /\ given[1].type = List(NonNull(IntType))
    /\ given[1].value = PyList(<<PyInt(1), PyNone>>)
    /\ answer[1] = "False"

\* validate_input has answered
InputAsked ==
    /\ Len(answer) = 1
    /\ given[1].op = "validate_input"

----------------------------------------------------------------------------
(* Properties of the directions of the types and of the declared fields.   *)

\* Schema.__init__ has returned or raised
SchemaEnded == sstate \notin {"new", "resolved"}

\* the declared type a type expression comes down to through its List and
\* NonNull layers and through the names of wrapped types; <<>> when it
\* names no declared type
RECURSIVE BottomPast(_, _, _)
BottomPast(sch, type, seen) ==
    Let(Innermost(type), LAMBDA inner :
        IF inner.t # "Ref" THEN <<inner>>
        ELSE IF ~DictHas(sch.types, inner.type_name) \/ inner.type_name \in seen THEN <<>>
        ELSE BottomPast(sch, DictGet(sch.types, inner.type_name),
                        seen \cup {inner.type_name}))

Bottom(sch, type) == BottomPast(sch, type, {})

\* the places where a type is declared against the direction of its
\* position: a field of an Object or Interface with an InputObject type, an
\* argument or an input field with an Object, Interface or Union type
Misdirected(sch) ==
    {i \in 1..Len(SchemaRefs(sch)) :
        Let(SchemaRefs(sch)[i], LAMBDA ref :
            /\ Len(Bottom(sch, ref.type)) = 1
            /\ \/ ref.pos = "out" /\ Bottom(sch, ref.type)[1].t = "InputObject"
               \/ /\ ref.pos \in {"arg", "in"}
                  /\ Bottom(sch, ref.type)[1].t \in {"Object", "Interface", "Union"})}

\* C29: the construction of a schema raises a Schema error for every schema
\* in which a field of an Object or Interface has an InputObject type, or an
\* argument or an input field has an Object, Interface or Union type, also
\* under List and NonNull layers and under the name of a wrapped type.
C29_DirectionsVerified ==
    (SchemaEnded /\ Misdirected(schema) # {}) => sstate = "GqlSchemaError"

\* the same for the fields and input fields of the declared types alone
C29_DeclaredFieldsVerified ==
    (SchemaEnded
        /\ \E i \in Misdirected(schema) :
              /\ SchemaRefs(schema)[i].pos \in {"out", "in"}
              /\ SchemaRefs(schema)[i].site[1] \notin {"@query", "@mutation"})
        => sstate = "GqlSchemaError"

\* the names of the fields an Object declares although an Interface it
\* implements declares them, or that two of its Interfaces both declare
Redeclared(sch, type) ==
    {name \in {type.fields[i].k : i \in 1..Len(type.fields)} :
        \E i \in 1..Len(type.interfaces) :
            /\ DictHas(sch.types, type.interfaces[i])
            /\ DictGet(sch.types, type.interfaces[i]).t = "Interface"
            /\ DictHas(DictGet(sch.types, type.interfaces[i]).fields, name)}
    \cup
    {name \in {"foo", "bar", "id", "a"} :
        \E i, j \in 1..Len(type.interfaces) :
            /\ type.interfaces[i] # type.interfaces[j]
            /\ \A l \in {i, j} :
                  /\ DictHas(sch.types, type.interfaces[l])
                  /\ DictGet(sch.types, type.interfaces[l]).t = "Interface"
                  /\ DictHas(DictGet(sch.types, type.interfaces[l]).fields, name)}

\* the Objects of the schema with such fields
Redeclaring(sch) ==
    {i \in 1..Len(sch.types) :
        /\ sch.types[i].v.t = "Object"
        /\ Redeclared(sch, sch.types[i].v) # {}}

\* C30: the construction of a schema raises a Schema error whenever an
\* Object declares a field that an Interface it implements declares, or two
\* Interfaces of an Object declare a field of the same name.
C30_NoRedeclaration ==
    (SchemaEnded /\ Redeclaring(schema) # {}) => sstate = "GqlSchemaError"

----------------------------------------------------------------------------
(* Properties of the declared defaults.                                    *)

\* the arguments and input fields the declared types of a schema hold
Defaulted(sch) ==
    UNION {IF sch.types[i].v.t = "InputObject"
           THEN {sch.types[i].v.input_fields[j].v :
                    j \in 1..Len(sch.types[i].v.input_fields)}
           ELSE IF sch.types[i].v.t \in {"Object", "Interface"}
           THEN UNION {IF Len(sch.types[i].v.fields[j].v.args) = 0 THEN {}
                       ELSE {sch.types[i].v.fields[j].v.args[1][l].v :
                                l \in 1..Len(sch.types[i].v.fields[j].v.args[1])} :
                       j \in 1..Len(sch.types[i].v.fields)}
           ELSE {} :
           i \in 1..Len(sch.types)}

\* those of them whose default is not a value of their type
IllTyped(sch) ==
    {iv \in Defaulted(sch) :
        /\ iv.default_value # PyNone
        /\ is_assignable(sch, iv.type, iv.default_value) # "True"}

\* C31: the construction of a schema raises a Schema error when the default
\* of an argument or of an input field is not a value of the declared type:
\* no schema with such a default is constructed.
C31_DefaultsChecked ==
    (SchemaEnded /\ IllTyped(schema) # {}) => sstate = "GqlSchemaError"

----------------------------------------------------------------------------
(* The ways the construction of a schema ends.                             *)

\* the names that stand for wrapped types and come back to themselves
\* through the names their wrapped types are written around
Circular(sch) ==
    {i \in 1..Len(sch.types) :
        /\ IsWrapped(sch.types[i].v)
        /\ Len(Bottom(sch, sch.types[i].v)) = 0
        /\ \A j \in 1..Len(SchemaRefs(sch)) :
              Innermost(SchemaRefs(sch)[j].type).t = "Ref"
                  => DictHas(sch.types, Innermost(SchemaRefs(sch)[j].type).type_name)}

\* C32: the construction of a schema ends either with the schema constructed
\* or with a Schema error, never with an exception of another kind and never
\* in a recursion without bound, also for names of List and NonNull types
\* that refer to themselves or to each other.
C32_ConstructedOrSchemaError ==
    sstate \in {"new", "resolved", "constructed", "GqlSchemaError"}

\* the same for the schemas without names that come back to themselves
C32_ConstructedOrSchemaErrorAcyclic ==
    Circular(schema) = {} => sstate \in {"new", "resolved", "constructed", "GqlSchemaError"}

----------------------------------------------------------------------------
(* Calls of Executor.query that run at the same time.  The variables of    *)
(* the parser and of the call hold the locals of the call that is running; *)
(* the locals of the other calls are kept in waiting.  The schema, the     *)
(* places of its resolved references and the resolver are the fields of    *)
(* the one Executor and are not part of the locals.                        *)

\* the locals of the running call: text_input, stack and reader of parse(),
\* the list document of parse_document(), the arguments variables and
\* operation_name of query(), the _OperationRunner and what query() gives
Frame ==
    [text |-> text, reader |-> reader, stack |-> stack, out |-> out, pstate |-> pstate,
     perr |-> perr, nsteps |-> nsteps, parts |-> parts, variables |-> call.variables,
     operation_name |-> call.operation_name, qresult |-> qresult, runner |-> runner]

\* the call goes on had the Reader been one object for all calls
Resume_ReaderShared(fr) ==
    /\ text' = fr.text
    /\ reader' = reader
    /\ stack' = fr.stack
    /\ out' = fr.out
    /\ pstate' = fr.pstate
    /\ perr' = fr.perr
    /\ nsteps' = fr.nsteps
    /\ parts' = fr.parts
    /\ call' = [call EXCEPT !.variables = fr.variables, !.operation_name = fr.operation_name]
    /\ qresult' = fr.qresult
    /\ runner' = fr.runner

\* the call with the locals fr goes on
Resume(fr) ==
    /\ text' = fr.text
    /\ reader' = fr.reader
    /\ stack' = fr.stack
    /\ out' = fr.out
    /\ pstate' = fr.pstate
    /\ perr' = fr.perr
    /\ nsteps' = fr.nsteps
    /\ parts' = fr.parts
    /\ call' = [call EXCEPT !.variables = fr.variables, !.operation_name = fr.operation_name]
    /\ qresult' = fr.qresult
    /\ runner' = fr.runner

\* the locals of a call of query() that has not taken a step
NewCall(inp) ==
    [text |-> Join(inp.parts, " "), reader |-> [index |-> 0, lineno |-> 1], stack |-> <<>>,
     out |-> <<>>, pstate |-> "idle", perr |-> "", nsteps |-> 0, parts |-> inp.parts,
     variables |-> inp.call.variables, operation_name |-> inp.call.operation_name,
     qresult |-> <<>>, runner |-> <<>>]

\* what the calls that run at the same time are called with
CallInputs ==
    {inp \in QueryInputs :
        /\ inp.call.resolver = QueryResolver("")
        /\ \/ inp.parts \in {<<"{", "r", "}">>, <<"{">>, <<"{foo {nope}}">>}
              /\ inp.call.variables = <<>>
              /\ inp.call.operation_name = None
           \/ /\ inp.parts \in {<<"query a($v: Int = 2) {s(a: $v)}">>}
              /\ inp.call.operation_name = None
           \/ /\ inp.parts = <<"query a {n} query b {a: n}">>
              /\ inp.call.variables = <<>>
              /\ inp.call.operation_name \in {None, "b"}}

\* one call runs by itself; then a call with the same arguments and another
\* call run at the same time
CallsInit ==
    /\ \E x \in CallInputs, y \in CallInputs :
          /\ parts = x.parts
          /\ text = Join(x.parts, " ")
          /\ call = x.call
          /\ waiting = <<NewCall(y), NewCall(x)>>
    /\ alone = <<>>
    /\ initial = DocumentParser(Caller)
    /\ reader = [index |-> 0, lineno |-> 1]
    /\ stack = <<>>
    /\ out = <<>>
    /\ pstate = "idle"
    /\ perr = ""
    /\ nsteps = 0
    /\ schema = QuerySchema
    /\ sstate = "constructed"
    /\ serr = ""
    /\ resolved = resolve_all_refs(QuerySchema.types, TypesRefs(QuerySchema.types), {}).resolved
    /\ vresult = <<>>
    /\ qresult = <<>>
    /\ runner = <<>>
    /\ first = <<>>
    /\ again = <<>>
    /\ given = <<>>
    /\ answer = <<>>

\* the call that runs by itself has ended: the next call begins
query_alone ==
    /\ Len(alone) = 0
    /\ Len(qresult) = 1
    /\ alone' = <<[text |-> text, variables |-> call.variables,
                   operation_name |-> call.operation_name, qresult |-> qresult]>>
    /\ Resume(waiting[1])
    /\ waiting' = Tail(waiting)
    /\ UNCHANGED <<initial, svars, vresult, first, again, given, answer>>

\* the interpreter lets the other call go on
switch ==
    /\ Len(alone) = 1
    /\ Len(waiting) = 1
    /\ Resume(waiting[1])
    /\ waiting' = <<Frame>>
    /\ UNCHANGED <<initial, svars, vresult, first, again, given, answer, alone>>

CallsNext ==
    \/ parse_begin
    \/ parse_step
    \/ parse_end
    \/ Executor_query
    \/ query_alone
    \/ switch

SpecCalls == CallsInit /\ [][CallsNext]_vars

\* the calls in progress or ended
Frames == {Frame} \cup {waiting[i] : i \in 1..Len(waiting)}

\* a call that has ended and was called with what the call that ran by
\* itself was called with
SameCall(fr) ==
    /\ Len(alone) = 1
    /\ Len(fr.qresult) = 1
    /\ fr.text = alone[1].text
    /\ fr.variables = alone[1].variables
    /\ fr.operation_name = alone[1].operation_name

\* C33: calls of query that run at the same time on one Executor, in any
\* interleaving of their steps, each give what the call gives when it runs
\* by itself, and the schema, the resolved references and the fields of the
\* Executor stay as they were.
C33_CallsIsolated ==
    /\ \A fr \in Frames : SameCall(fr) => fr.qresult = alone[1].qresult
    /\ schema = QuerySchema
    /\ sstate = "constructed"
    /\ resolved = resolve_all_refs(QuerySchema.types, TypesRefs(QuerySchema.types), {}).resolved
    /\ call.resolver = QueryResolver("")

\* a call has ended as it ends by itself while another call, of another
\* text, was in the middle of its parse
C33_Witness ==
    /\ SameCall(Frame)
    /\ qresult = alone[1].qresult
    /\ qresult[1].exc = ""
    /\ Len(waiting) = 1
    /\ waiting[1].pstate = "parsing"
    /\ waiting[1].nsteps > 0
    /\ waiting[1].text # text
    /\ Len(waiting[1].stack) > 1

----------------------------------------------------------------------------
(* The mapping of variables the caller passes to query.                    *)

\* C40: query never changes the mapping of variables of its caller: after
\* every call, ended by a return or by an exception, the mapping holds the
\* entries it held before, also when the runner has bound the declared
\* default or None for a variable the caller did not supply.
C40_MappingKept == [][call'.variables = call.variables]_vars

\* the names the runner has bound and the caller did not supply
BoundByRunner ==
    IF Len(runner) = 0 THEN {}
    ELSE {runner[1].vars_values[i].k : i \in 1..Len(runner[1].vars_values)}
         \ {call.variables[i].k : i \in 1..Len(call.variables)}

\* a call has returned after the runner bound a variable the caller did
\* not supply
C40_Witness ==
    /\ Len(qresult) = 1
    /\ BoundByRunner # {}
    /\ qresult[1].exc = ""

\* a call has raised after the runner bound the declared default
C40_WitnessRaised ==
    /\ Len(qresult) = 1
    /\ \E name \in BoundByRunner : DictGet(runner[1].vars_values, name) # PyNone
    /\ qresult[1].exc # ""

----------------------------------------------------------------------------
(* Properties of the documents parse_document returns.                     *)

\* parse_document has returned a Document
DocumentReturned ==
    /\ initial = DocumentParser(Caller)
    /\ pstate = "done"
    /\ Len(out) = 1

\* C34: the fragments of a Document that parse_document returns have
\* pairwise distinct names: a text that declares two fragments of one name
\* gives no Document that holds both.
C34_FragmentNamesDistinct ==
    DocumentReturned =>
        \A i, j \in 1..Len(out[1].fragments) :
            i # j => out[1].fragments[i].name # out[1].fragments[j].name

\* the declarations of the text that declare an operation, in the order of
\* the text
OperationDecls ==
    SelectSeq(parts, LAMBDA d : d \in ShorthandDecls \cup QueryDecls \cup MutationDecls)

\* the operation a declaration declares, by its class and name
IsDeclaredBy(op, d) ==
    /\ op.node = (IF d \in MutationDecls THEN "Mutation" ELSE "Query")
    /\ op.name = (IF d \in {"query {a}", "mutation {a}"} \cup ShorthandDecls THEN None
                  ELSE IF d \in MutationDecls THEN "m" ELSE "q")
    /\ d \in ShorthandDecls => op.variables = <<>> /\ op.directives = <<>>

\* C35: a shorthand operation may share a document with mutation
\* operations, before and after it, and then the Document holds all the
\* operations in the order of the text; with another shorthand operation or
\* with a query operation, before or after it, parsing raises a Parsing
\* error.
C35_ShorthandAmongMutations ==
    ShorthandDocumentParsed =>
        IF Count(ShorthandDecls \cup QueryDecls) = 1
        THEN /\ DocumentReturned
             /\ Len(out[1].operations) = Len(OperationDecls)
             /\ \A i \in 1..Len(OperationDecls) :
                   IsDeclaredBy(out[1].operations[i], OperationDecls[i])
        ELSE pstate = "GqlParsingError"

\* a shorthand operation was returned after a mutation operation of the
\* text and before another one
C35_Witness ==
    /\ ShorthandDocumentParsed
    /\ DocumentReturned
    /\ Len(out[1].operations) = 3
    /\ out[1].operations[1].node = "Mutation"
    /\ out[1].operations[2].node = "Query"
    /\ out[1].operations[2].name = None
    /\ out[1].operations[3].node = "Mutation"
    /\ out[1].operations[1].name # out[1].operations[3].name

\* the names of the fragments the selections spread, at any depth
RECURSIVE SpreadNames(_)
SpreadNames(selections) ==
    UNION {IF selections[i].node = "FragmentSpread" THEN {selections[i].name}
           ELSE SpreadNames(selections[i].selections) :
           i \in 1..Len(selections)}

\* the names of the variables a value is written with
RECURSIVE ValueVariables(_)
ValueVariables(value) ==
    IF value.node = "Variable" THEN {value.name}
    ELSE IF value.node \in {"ListValue", "ConstListValue"}
    THEN UNION {ValueVariables(value.values[i]) : i \in 1..Len(value.values)}
    ELSE IF value.node \in {"ObjectValue", "ConstObjectValue"}
    THEN UNION {ValueVariables(value.values[i].v) : i \in 1..Len(value.values)}
    ELSE {}

ArgumentsVariables(arguments) ==
    UNION {ValueVariables(arguments[i].value) : i \in 1..Len(arguments)}

DirectivesVariables(directives) ==
    UNION {ArgumentsVariables(directives[i].arguments) : i \in 1..Len(directives)}

\* the names of the variables the selections use, at any depth
RECURSIVE UsedVariables(_)
UsedVariables(selections) ==
    UNION {DirectivesVariables(selections[i].directives)
           \cup (IF selections[i].node = "FieldSelection"
                 THEN ArgumentsVariables(selections[i].arguments) ELSE {})
           \cup (IF selections[i].node = "FragmentSpread" THEN {}
                 ELSE UsedVariables(selections[i].selections)) :
           i \in 1..Len(selections)}

\* the names spread in the document that no fragment of it has
UndefinedSpreads(document) ==
    (UNION {SpreadNames(document.operations[i].selections) :
               i \in 1..Len(document.operations)}
     \cup UNION {SpreadNames(document.fragments[i].selections) :
                    i \in 1..Len(document.fragments)})
    \ {document.fragments[i].name : i \in 1..Len(document.fragments)}

\* the variables an operation uses, in its selections and in the fragments
\* it spreads, and does not declare
Undeclared(document, op) ==
    (UsedVariables(op.selections)
     \cup UNION {UsedVariables(document.fragments[i].selections) :
                    i \in {j \in 1..Len(document.fragments) :
                              document.fragments[j].name \in SpreadNames(op.selections)}})
    \ {op.variables[i].name : i \in 1..Len(op.variables)}

\* C36: parse_document raises a Parsing error when a fragment spread names
\* a fragment the document does not define, or when a variable used in the
\* selections of an operation, directly or in a fragment it spreads, is not
\* declared by the operation: no Document with such a spread or such a
\* variable is returned.
C36_DeclaredBeforeReturned ==
    DocumentReturned =>
        /\ UndefinedSpreads(out[1]) = {}
        /\ \A i \in 1..Len(out[1].operations) :
              Undeclared(out[1], out[1].operations[i]) = {}

\* the same for the spreads alone and for the variables alone
C36_SpreadsDefined == DocumentReturned => UndefinedSpreads(out[1]) = {}

C36_VariablesDeclared ==
    DocumentReturned =>
        \A i \in 1..Len(out[1].operations) : Undeclared(out[1], out[1].operations[i]) = {}

----------------------------------------------------------------------------
(* The guard of the loop of parse() against a step without progress.       *)

\* C37: the loop of parse() never ends a call of parse_document with the
\* RuntimeError of a step without progress: every call of next() of a
\* frame pushes a frame, removes at least one frame or raises a Parsing
\* error.
C37_AlwaysProgress ==
    /\ [](initial = DocumentParser(Caller) => pstate # "RuntimeError")
    /\ [][(/\ initial = DocumentParser(Caller)
            /\ pstate = "parsing"
            /\ nsteps' = nsteps + 1)
              => \/ Len(stack') > Len(stack)
                 \/ Len(stack') < Len(stack)
                 \/ pstate' = "GqlParsingError"
                 \/ /\ Len(stack') = Len(stack)
                    /\ stack'[Len(stack')].kind # stack[Len(stack)].kind]_vars

\* the same for parse() started on any frame
C37_AlwaysProgressAnyFrame == pstate # "RuntimeError"

\* parse_document has returned a Document after more than twenty calls of
\* next(), frames for values and directives among them
C37_Witness ==
    /\ DocumentReturned
    /\ nsteps > 20
    /\ Len(out[1].operations) > 0
    /\ Len(out[1].operations[1].directives) > 0
    /\ Len(out[1].operations[1].variables) > 0

----------------------------------------------------------------------------
(* The three dots of a fragment spread and of an inline fragment.          *)

\* the parse of a selection set whose selection begins with a dot has ended
DotsAsked == ParseEnded /\ Len(parts) > 0 /\ parts[1] = "dots"

\* the fragment spreads and inline fragments among the selections, at any
\* depth
RECURSIVE FragmentNodes(_)
FragmentNodes(selections) ==
    UNION {(IF selections[i].node \in {"FragmentSpread", "InlineFragment"}
            THEN {selections[i].node} ELSE {})
           \cup (IF selections[i].node = "FragmentSpread" THEN {}
                 ELSE FragmentNodes(selections[i].selections)) :
           i \in 1..Len(selections)}

\* the selections the parse gave: those of the first operation of the
\* Document, or those handed to the caller of the SelectionsParser
GivenSelections ==
    IF initial.kind = "DocumentParser"
    THEN IF Len(out) = 1 /\ Len(out[1].operations) > 0
         THEN out[1].operations[1].selections ELSE <<>>
    ELSE out

\* C38: a fragment spread or an inline fragment is read only where the
\* selection begins with three dots: a selection that begins with a dot and
\* not with three dots always raises a Parsing error and gives no
\* FragmentSpread and no InlineFragment node.
C38_ThreeDotsOnly ==
    (DotsAsked /\ parts[4] \notin {"...", "...."}) =>
        /\ pstate = "GqlParsingError"
        /\ FragmentNodes(GivenSelections) = {}

\* the same where the three characters after the first dot are not
\* followed by a character that ends a name
C38_ThreeDotsOrNameFollows ==
    (DotsAsked /\ parts[4] \in {"..", ".", "..a"} /\ parts[5] \in {"f", "on T {a}", ""}) =>
        /\ pstate = "GqlParsingError"
        /\ FragmentNodes(GivenSelections) = {}

----------------------------------------------------------------------------
(* Arguments that are declared with a default and supplied.                *)

\* the names a field declares as arguments with a default
DefaultedArgs(field_definition) ==
    DeclaredArgs(field_definition) \ RequiredArgs(field_definition)

\* for every selection, at any depth, of a field its type defines: the
\* arguments with a default that it supplies
RECURSIVE SuppliedDefaults(_, _, _)
SuppliedDefaults(sch, selections, from_type) ==
    UNION {Let(DictGet(from_type.fields, selections[i].name), LAMBDA field_definition :
              (SuppliedArgs(selections[i]) \cap DefaultedArgs(field_definition))
              \cup
              (IF NamedTypeOf(sch, field_definition.type).t \in {"Object", "Interface"}
               THEN SuppliedDefaults(sch, selections[i].selections,
                                     NamedTypeOf(sch, field_definition.type))
               ELSE {})) :
           i \in {j \in 1..Len(selections) :
                     /\ selections[j].node = "FieldSelection"
                     /\ DictHas(from_type.fields, selections[j].name)}}

\* validate has returned or raised for a query that supplies an argument
\* declared with a default, omits no required argument and supplies no
\* undeclared one
DefaultSupplied ==
    /\ Validated
    /\ SuppliedDefaults(schema, out[1].operations[1].selections, schema.query) # {}
    /\ \A f \in FaultsWritten : f.omitted = {} /\ f.undeclared = {}

\* C39: validate accepts a field selection that supplies a value for an
\* argument declared with a default: supplying such arguments, alone or
\* with the required ones in any order, raises no error of any kind on
\* account of the arguments.
C39_DefaultedAccepted ==
    DefaultSupplied =>
        /\ vresult[1].exc \notin {"KeyError", "GqlValidationError"}
        /\ vresult[1].err \notin {"Selection miss required arguments: ",
                                  "Undefined argument: ",
                                  "Field does not support args"}


====
